---------------------------- MODULE Spec2Model ----------------------------
(***************************************************************************)
(* PR Insight (PR2PDF): a model of the report renderer, the report         *)
(* template store, the report-generation / download / preview routes and   *)
(* the repository connect / sync routes.                                   *)
(*                                                                         *)
(* Text is a sequence of code points, each written as a string ("x" is an  *)
(* ordinary letter, "U1F4CB" the code point U+1F4CB).  An optional JSON    *)
(* field is a sequence of length 0 (absent) or 1 (present).                *)
(***************************************************************************)
EXTENDS Integers, Sequences, FiniteSets, TLC

VARIABLES
    \* ---- renderer (server/services/pdf.ts) and the preview of one stored report
    rContent,       \* the stored report's content (reports.content)
    rAudience,      \* the stored report's audienceType
    today,          \* the server's calendar day (new Date())
    previews,       \* the HTML bodies answered by successive preview requests
    \* ---- report templates (storage.ts, routes.ts, the templates page)
    reportTemplates,    \* rows of the report_templates table
    nextTemplateId,     \* the next id gen_random_uuid() hands out
    templatesCache,     \* the page's query cache of GET /api/report-templates
    tmplStatus,         \* HTTP status of the last template request (0: none yet)
    \* ---- repositories and pull requests (routes.ts, storage.ts, github.ts)
    repositories,       \* rows of the repositories table
    pullRequests,       \* rows of the pull_requests table
    nextRepoId,         \* the next repositories.id
    nextPrId,           \* the next pull_requests.id
    req,                \* the repository requests received: position and locals of each handler
    \* ---- reports (routes.ts, storage.ts, pdf.ts, gemini.ts)
    reports,            \* rows of the reports table
    files,              \* files in the reports/ directory
    nextReportId,       \* the next reports.id
    envGithubToken,     \* process.env.GITHUB_TOKEN is set
    rreq,               \* the report requests received: position and locals of each handler
    repositoryReports,  \* rows of the repository_reports table
    \* ---- user prompts of the LLM calls (gemini.ts)
    promptIn,           \* what the prompt is built from: PR details or repository data
    promptOut           \* the parts of the prompt built from it (none yet: <<>>)

renderVars == <<rContent, rAudience, today, previews>>
templateVars == <<reportTemplates, nextTemplateId, templatesCache, tmplStatus>>
repoVars == <<repositories, pullRequests, nextRepoId, nextPrId, req>>
reportVars == <<reports, files, nextReportId, envGithubToken, rreq, repositoryReports>>

promptVars == <<promptIn, promptOut>>

vars == <<renderVars, templateVars, repoVars, reportVars, promptVars>>

\* no prompt is being built
PromptIdle ==
    /\ promptIn = [kind |-> "none"]
    /\ promptOut = <<>>

----------------------------------------------------------------------------
(* Bounds *)

MaxTextLen  == 2    \* longest text drawn for the field under test
MaxDays     == 2    \* calendar days the server clock runs through
MaxPreviews == 2    \* preview requests recorded
MaxTemplates == 2   \* template rows ever created
MaxRepoRequests == 2    \* repository requests received
MaxUpstream == 2    \* pull requests the host lists for a repository
MaxGithubId == 3    \* external identifiers run over 1..MaxGithubId
MaxReportRequests == 2  \* report requests received
MaxPromptFiles == 3     \* changed files of the pull request a prompt is built for
MaxPromptPRs == 12      \* stored pull requests of the repository a prompt is built for
PromptListLimit == 10   \* pullRequests.slice(0, 10) of the repository prompt

----------------------------------------------------------------------------
(* Optional values *)

None == <<>>
Some(v) == <<v>>
IsSome(o) == Len(o) = 1
Val(o) == o[1]

----------------------------------------------------------------------------
(* Report templates: the store *)

Audiences == {"pm", "qa", "client"}

\* templateContent.systemPrompt values: none, the empty string, a custom prompt
TemplatePrompts == {None, Some("custom prompt")}

\* request bodies insertReportTemplateSchema accepts
TemplateInputs ==
    [audienceType : Audiences, isDefault : BOOLEAN, systemPrompt : TemplatePrompts]

InitTemplateStore ==
    /\ reportTemplates = {}
    /\ nextTemplateId = 1
    /\ templatesCache = None
    /\ tmplStatus = 0

\* DatabaseStorage.getReportTemplate: the row, as an optional
getReportTemplate(id) ==
    IF \E t \in reportTemplates : t.id = id
    THEN Some(CHOOSE t \in reportTemplates : t.id = id)
    ELSE None

\* DatabaseStorage.deleteReportTemplate: the table without the row
deleteReportTemplate(id) == {t \in reportTemplates : t.id # id}

----------------------------------------------------------------------------
(* Repositories and pull requests: the store *)

FullNames == {"acme/app", "acme/demo-app"}

\* fullName.toLowerCase().includes("demo")
NameHasDemo(fullName) == fullName = "acme/demo-app"

\* githubToken values of a connect request
Tokens == {"demo", "test", "ghp_secret"}

GithubIds == 1..MaxGithubId

\* a repository request slot nobody has used yet
NoRequest ==
    [kind |-> "none", pc |-> "done", fullName |-> "", token |-> "", repoId |-> 0,
     status |-> 0, body |-> {}, ghCalls |-> 0, sentTokens |-> {}, base |-> 0,
     prs |-> <<>>, i |-> 0, existing |-> 0, created |-> {},
     synced |-> FALSE, repeat |-> FALSE, interfered |-> FALSE, changed |-> FALSE]

InitRepoStore ==
    /\ repositories = {}
    /\ pullRequests = {}
    /\ nextRepoId = 1
    /\ nextPrId = 1
    /\ req = [k \in 1..MaxRepoRequests |-> NoRequest]

\* repositories.fullName is UNIQUE
FullNameTaken(fullName) == \E r \in repositories : r.fullName = fullName

\* pull_requests.githubId is UNIQUE
GithubIdTaken(githubId) == \E p \in pullRequests : p.githubId = githubId

\* pull_requests.repositoryId REFERENCES repositories.id
RepoRowExists(id) == \E r \in repositories : r.id = id

\* the columns getRepositories / getRepository / getRepositoryByFullName and
\* the joins of getRecentPullRequests / getAllReports copy out of a row
Sanitized(row) == [id |-> row.id, fullName |-> row.fullName]

\* DatabaseStorage.getRepository
getRepository(id) ==
    IF RepoRowExists(id)
    THEN Some(Sanitized(CHOOSE r \in repositories : r.id = id))
    ELSE None

\* DatabaseStorage.getPullRequestByGithubId: the row's id, 0 when there is none
getPullRequestByGithubId(githubId) ==
    IF GithubIdTaken(githubId)
    THEN (CHOOSE p \in pullRequests : p.githubId = githubId).id
    ELSE 0

\* GitHubService.determineReviewStatus (the list endpoint's review_comments is
\* taken as empty)
determineReviewStatus(pr) ==
    IF pr.state = "closed" /\ ~pr.merged_at THEN "closed"
    ELSE IF pr.merged_at THEN "merged"
    ELSE "pending"

\* prData of syncPullRequests
prData(repositoryId, pr) ==
    [repositoryId |-> repositoryId, number |-> 100 + pr.id, status |-> pr.state,
     reviewStatus |-> determineReviewStatus(pr), mergedAt |-> pr.merged_at,
     githubId |-> pr.id, changes |-> "null"]

\* the two demo pull requests of POST /api/repositories, n = 1, 2
demoPR(repositoryId, baseGithubId, n) ==
    [repositoryId |-> repositoryId, number |-> 100 + n, status |-> "open",
     reviewStatus |-> IF n = 1 THEN "pending" ELSE "approved", mergedAt |-> FALSE,
     githubId |-> baseGithubId + n, changes |-> "files"]

WithId(id, data) ==
    [id |-> id, repositoryId |-> data.repositoryId, number |-> data.number,
     status |-> data.status, reviewStatus |-> data.reviewStatus,
     mergedAt |-> data.mergedAt, githubId |-> data.githubId, changes |-> data.changes]

\* createPullRequest on a table whose githubId column lost its UNIQUE constraint
InsertRejectedNoUnique(data) == ~RepoRowExists(data.repositoryId)

\* the insert of createPullRequest is rejected by the UNIQUE and REFERENCES
\* constraints of the table
InsertRejected(data) ==
    GithubIdTaken(data.githubId) \/ ~RepoRowExists(data.repositoryId)

\* the update of updatePullRequest(id, data) is rejected by the same constraints
UpdateRejected(id, data) ==
    \/ \E p \in pullRequests : p.id # id /\ p.githubId = data.githubId
    \/ ~RepoRowExists(data.repositoryId)

\* DatabaseStorage.updatePullRequest: the table after `set(updates) where id`
updatePullRequest(id, data) ==
    {IF p.id = id THEN WithId(id, data) ELSE p : p \in pullRequests}

\* what GET .../pulls?state=all of the host may answer: pull requests with
\* distinct ids, open or closed-and-merged, in any order
UpstreamPRs ==
    {[id |-> g, state |-> v[1], merged_at |-> v[2]] :
        g \in GithubIds, v \in {<<"open", FALSE>>, <<"closed", TRUE>>}}

RECURSIVE UpstreamListsOfLen(_)
UpstreamListsOfLen(n) ==
    IF n = 0 THEN {<<>>}
    ELSE {Append(l, pr) : l \in {x \in UpstreamListsOfLen(n - 1) : TRUE},
                          pr \in UpstreamPRs}

DistinctIds(l) == \A a, b \in DOMAIN l : a # b => l[a].id # l[b].id

UpstreamLists ==
    {l \in UNION {UpstreamListsOfLen(n) : n \in 0..MaxUpstream} : DistinctIds(l)}

----------------------------------------------------------------------------
(* Reports: the store and the reports/ directory *)

\* a report request slot nobody has used yet
NoReportRequest ==
    [kind |-> "none", pc |-> "done", prId |-> 0, audienceType |-> "", templateId |-> 0,
     reportId |-> 0, status |-> 0, served |-> "none", ghCalls |-> 0, llmCalls |-> 0,
     content |-> None, failed |-> "none", browser |-> "none", htmlOnly |-> FALSE,
     template |-> None, systemPrompt |-> "", non2xx |-> FALSE,
     missingPdf |-> FALSE, regen |-> "none", repositoryId |-> 0, reportType |-> ""]

\* no report yet, and no report request
ReportIdle ==
    /\ reports = {}
    /\ files = {}
    /\ nextReportId = 1
    /\ envGithubToken = TRUE
    /\ rreq = [k \in 1..MaxReportRequests |-> NoReportRequest]
    /\ repositoryReports = {}

\* a file name that leaves the report id out: reports/<audienceType>.pdf
SharedPdfPath(reportId, audienceType) ==
    [reportId |-> 0, audienceType |-> audienceType, ext |-> "pdf"]

\* pdfFilepath / htmlFilepath of generatePDF: reports/<reportId>-<audienceType>.<ext>
PdfPath(reportId, audienceType) ==
    [reportId |-> reportId, audienceType |-> audienceType, ext |-> "pdf"]

HtmlPath(reportId, audienceType) ==
    [reportId |-> reportId, audienceType |-> audienceType, ext |-> "html"]

\* pdfPath.replace('.pdf', '.html')
ReplaceExt(path) == [path EXCEPT !.ext = "html"]

\* a row createReport stores whose pdf_path was given at the insert
NewReportWithPath(id, pullRequestId, audienceType, content) ==
    [id |-> id, pullRequestId |-> pullRequestId, audienceType |-> audienceType,
     content |-> content, pdfPath |-> Some(PdfPath(id, audienceType))]

\* the row createReport({pullRequestId, audienceType, content}) stores: pdf_path
\* is not among the values and the column has no default
NewReport(id, pullRequestId, audienceType, content) ==
    [id |-> id, pullRequestId |-> pullRequestId, audienceType |-> audienceType,
     content |-> content, pdfPath |-> None]

\* DatabaseStorage.getReport
getReport(id) ==
    IF \E r \in reports : r.id = id
    THEN Some(CHOOSE r \in reports : r.id = id)
    ELSE None

\* an update whose `updates` object carries more than the path
updateReportAndOwner(id, pdfPath) ==
    {IF r.id = id THEN [r EXCEPT !.pdfPath = Some(pdfPath), !.pullRequestId = 0] ELSE r :
        r \in reports}

\* DatabaseStorage.updateReport(id, { pdfPath })
updateReport(id, pdfPath) ==
    {IF r.id = id THEN [r EXCEPT !.pdfPath = Some(pdfPath)] ELSE r : r \in reports}

\* DatabaseStorage.getPullRequest
getPullRequest(id) ==
    IF \E p \in pullRequests : p.id = id
    THEN Some(CHOOSE p \in pullRequests : p.id = id)
    ELSE None

----------------------------------------------------------------------------
(* Renderer: PDFService.generateHTMLReport *)

\* the substitution table of replaceEmojis, in the order the replaces are chained
GlyphTable ==
    << [glyph |-> <<"U1F4CB">>,          plain |-> <<"U25A0">>],
       [glyph |-> <<"U1F4A1">>,          plain |-> <<"U2605">>],
       [glyph |-> <<"U1F4CA">>,          plain |-> <<"U25B2">>],
       [glyph |-> <<"U26A0", "UFE0F">>,  plain |-> <<"U26A0">>],
       [glyph |-> <<"U2705">>,           plain |-> <<"U2713">>],
       [glyph |-> <<"U274C">>,           plain |-> <<"U2717">>],
       [glyph |-> <<"U1F50D">>,          plain |-> <<"U25CB">>],
       [glyph |-> <<"U2B50">>,           plain |-> <<"U2605">>],
       [glyph |-> <<"U1F6A8">>,          plain |-> <<"!">>],
       [glyph |-> <<"U1F3AF">>,          plain |-> <<"U2192">>] >>

\* String.prototype.replace with a global pattern: leftmost matches, left to
\* right, the replacement text is not scanned again
RECURSIVE ReplaceAll(_, _, _)
ReplaceAll(text, pat, rep) ==
    IF Len(text) < Len(pat) THEN text
    ELSE IF SubSeq(text, 1, Len(pat)) = pat
         THEN rep \o ReplaceAll(SubSeq(text, Len(pat) + 1, Len(text)), pat, rep)
         ELSE <<Head(text)>> \o ReplaceAll(Tail(text), pat, rep)

RECURSIVE ReplaceFrom(_, _)
ReplaceFrom(text, k) ==
    IF k > Len(GlyphTable) THEN text
    ELSE ReplaceFrom(ReplaceAll(text, GlyphTable[k].glyph, GlyphTable[k].plain), k + 1)

replaceEmojis(text) == ReplaceFrom(text, 1)

\* xs.map(f) for a sequence
MapSeq(f(_), xs) == [i \in 1..Len(xs) |-> f(xs[i])]

\* xs?.map(replaceEmojis) for an optional list
MapOpt(o) == IF IsSome(o) THEN Some(MapSeq(replaceEmojis, Val(o))) ELSE None

cleanSection(section) ==
    [title   |-> replaceEmojis(section.title),
     content |-> replaceEmojis(section.content),
     items   |-> MapOpt(section.items)]

\* cleanContent: every field but the ones listed is spread unchanged
cleanContent(content) ==
    [title           |-> replaceEmojis(Val(content.title)),
     summary         |-> replaceEmojis(Val(content.summary)),
     sections        |-> MapSeq(cleanSection, Val(content.sections)),
     recommendations |-> MapOpt(content.recommendations),
     testScenarios   |-> MapOpt(content.testScenarios)]

audienceTypeDisplay(audienceType) ==
    CASE audienceType = "pm"     -> "Project Manager"
      [] audienceType = "qa"     -> "Quality Assurance"
      [] audienceType = "client" -> "Client"
      [] OTHER                   -> audienceType

\* xs.map(f).join('') where f yields a token sequence
RECURSIVE JoinMap(_, _)
JoinMap(f(_), xs) ==
    IF xs = <<>> THEN <<>> ELSE f(Head(xs)) \o JoinMap(f, Tail(xs))

liHtml(item) == <<"<li>">> \o item \o <<"</li>">>

\* `${section.items ? `<ul>...</ul>` : ''}`: an array, even an empty one, is truthy
sectionHtml(section) ==
    <<"<div class=section>", "<h2>">> \o section.title \o <<"</h2>", "<p>">>
        \o section.content \o <<"</p>">>
        \o (IF IsSome(section.items)
            THEN <<"<ul>">> \o JoinMap(liHtml, Val(section.items)) \o <<"</ul>">>
            ELSE <<>>)
        \o <<"</div>">>

\* `${cleanContent.testScenarios ? ... : ''}`
testScenariosHtml(clean) ==
    IF IsSome(clean.testScenarios)
    THEN <<"<div class=test-scenarios>", "<h2>", "U25A0", " Recommended Test Scenarios", "</h2>", "<ul>">>
            \o JoinMap(liHtml, Val(clean.testScenarios)) \o <<"</ul>", "</div>">>
    ELSE <<>>

\* `${cleanContent.recommendations ? ... : ''}`
recommendationsHtml(clean) ==
    IF IsSome(clean.recommendations)
    THEN <<"<div class=recommendations>", "<h2>", "U2605", " Recommendations", "</h2>", "<ul>">>
            \o JoinMap(liHtml, Val(clean.recommendations)) \o <<"</ul>", "</div>">>
    ELSE <<>>

\* new Date().toLocaleDateString() on calendar day `day`
toLocaleDateString(day) == ToString(day)

\* the <title> element of the template: it interpolates content.title
headTitle(content, clean) == Val(content.title)

\* generateHTMLReport throws a TypeError when title, summary or sections is
\* missing (replaceEmojis(undefined), undefined.map)
RenderThrows(content) ==
    ~IsSome(content.title) \/ ~IsSome(content.summary) \/ ~IsSome(content.sections)

generateHTMLReport(content, audienceType, day) ==
    LET clean == cleanContent(content) IN
    <<"<!DOCTYPE html>", "<html>", "<head>", "<title>">> \o headTitle(content, clean)
        \o <<"</title>", "<style>", "</style>", "</head>", "<body>">>
        \o <<"<div class=header>", "<h1>">> \o clean.title \o <<"</h1>">>
        \o <<"<span class=audience-badge>", "Report for ", audienceTypeDisplay(audienceType), "</span>", "</div>">>
        \o <<"<div class=summary>", "<h2>", "Executive Summary", "</h2>", "<p>">>
        \o clean.summary \o <<"</p>", "</div>">>
        \o JoinMap(sectionHtml, clean.sections)
        \o testScenariosHtml(clean)
        \o recommendationsHtml(clean)
        \o <<"<div class=footer>", "<p>", "Generated by PR Insight ", toLocaleDateString(day), "</p>", "</div>">>
        \o <<"</body>", "</html>">>

\* PDFService.generateHTML
generateHTML(reportId, content, audienceType, day) ==
    generateHTMLReport(content, audienceType, day)


----------------------------------------------------------------------------
(* A stored report and its previews over time (GET /api/reports/:id/preview) *)

InputChars == {"x", "U1F4CB", "U26A0", "UFE0F"}

RECURSIVE TextsOfLen(_)
TextsOfLen(n) ==
    IF n = 0 THEN {<<>>}
    ELSE {<<c>> \o t : c \in InputChars, t \in TextsOfLen(n - 1)}

Texts == UNION {TextsOfLen(n) : n \in 0..MaxTextLen}

PlainText == <<"x">>

ContentFields ==
    {"title", "summary", "sectionTitle", "sectionContent", "item",
     "recommendation", "testScenario"}

ListShapes == {"absent", "empty", "one"}

OptList(shape, t) ==
    CASE shape = "absent" -> None
      [] shape = "empty"  -> Some(<<>>)
      [] OTHER            -> Some(<<t>>)

Pick(field, name, t) == IF field = name THEN t ELSE PlainText

\* a well-formed report content: text t in the field under test, every other
\* text plain, and each optional list absent, empty or holding one entry
SampleContent(field, t, items, recs, tests) ==
    [title           |-> Some(Pick(field, "title", t)),
     summary         |-> Some(Pick(field, "summary", t)),
     sections        |-> Some(<< [title   |-> Pick(field, "sectionTitle", t),
                                  content |-> Pick(field, "sectionContent", t),
                                  items   |-> OptList(items, Pick(field, "item", t))] >>),
     recommendations |-> OptList(recs, Pick(field, "recommendation", t)),
     testScenarios   |-> OptList(tests, Pick(field, "testScenario", t))]

SampleContents ==
    {SampleContent(f, t, i, r, s) :
        f \in ContentFields, t \in Texts, i \in {"absent", "one"},
        r \in ListShapes, s \in ListShapes}

RenderInit ==
    /\ rContent \in SampleContents
    /\ rAudience \in Audiences
    /\ today = 1
    /\ previews = <<>>

\* one stored report, left alone by the specifications about other routes
RenderIdle ==
    /\ rContent = SampleContent("title", PlainText, "absent", "absent", "absent")
    /\ rAudience = "pm"
    /\ today = 1
    /\ previews = <<>>

InitRender == RenderInit /\ InitTemplateStore /\ InitRepoStore /\ ReportIdle /\ PromptIdle

\* the preview route regenerates the HTML from the stored content on every call
PreviewStored ==
    /\ Len(previews) < MaxPreviews
    /\ IsSome(rContent.title)
    /\ ~RenderThrows(rContent)
    /\ previews' = Append(previews, generateHTML("r", rContent, rAudience, today))
    /\ UNCHANGED <<rContent, rAudience, today>>
    /\ UNCHANGED <<templateVars, repoVars, reportVars, promptVars>>

\* midnight passes on the server
DayPasses ==
    /\ today < MaxDays
    /\ today' = today + 1
    /\ UNCHANGED <<rContent, rAudience, previews>>
    /\ UNCHANGED <<templateVars, repoVars, reportVars, promptVars>>

NextRender == PreviewStored \/ DayPasses

SpecRender == InitRender /\ [][NextRender]_vars

----------------------------------------------------------------------------
(* Claims about the renderer *)

IsInfix(pat, s) ==
    \E k \in 1..(Len(s) - Len(pat) + 1) : SubSeq(s, k, k + Len(pat) - 1) = pat

HasGlyph(html) == \E k \in DOMAIN GlyphTable : IsInfix(GlyphTable[k].glyph, html)

HasToken(html, tok) == \E k \in DOMAIN html : html[k] = tok

NonEmptyList(o) == IsSome(o) /\ Val(o) # <<>>

\* C5: any two previews of the same stored content, at any two points in time,
\* are byte-identical HTML
C5_PreviewsIdentical ==
    \A i, j \in DOMAIN previews : previews[i] = previews[j]

\* C6: no glyph of the substitution table's domain occurs anywhere in the HTML
\* rendered from the content (the fixed markup holds none, so any occurrence
\* comes from a text field of the content)
C6_NoGlyphInHtml ==
    \A i \in DOMAIN previews : ~HasGlyph(previews[i])

\* C7: the HTML holds a test-scenarios block iff testScenarios is present and
\* non-empty, and a recommendations block iff recommendations is present and
\* non-empty
C7_BlocksIffNonEmpty ==
    \A i \in DOMAIN previews :
        /\ HasToken(previews[i], "<div class=test-scenarios>")
              <=> NonEmptyList(rContent.testScenarios)
        /\ HasToken(previews[i], "<div class=recommendations>")
              <=> NonEmptyList(rContent.recommendations)


----------------------------------------------------------------------------
(* Report template routes and the templates page *)

\* POST /api/report-templates
PostReportTemplate(data) ==
    /\ nextTemplateId <= MaxTemplates
    /\ reportTemplates' = reportTemplates \cup
           {[id |-> nextTemplateId, audienceType |-> data.audienceType,
             isDefault |-> data.isDefault, systemPrompt |-> data.systemPrompt]}
    /\ nextTemplateId' = nextTemplateId + 1
    /\ tmplStatus' = 201
    /\ UNCHANGED templatesCache
    /\ UNCHANGED <<renderVars, repoVars, reportVars, promptVars>>

\* PUT /api/report-templates/:id with a partial body setting isDefault
PutReportTemplate(id, isDefault) ==
    /\ IF IsSome(getReportTemplate(id))
       THEN /\ reportTemplates' =
                  {IF t.id = id THEN [t EXCEPT !.isDefault = isDefault] ELSE t :
                      t \in reportTemplates}
            /\ tmplStatus' = 200
       ELSE /\ tmplStatus' = 404
            /\ UNCHANGED reportTemplates
    /\ UNCHANGED <<nextTemplateId, templatesCache>>
    /\ UNCHANGED <<renderVars, repoVars, reportVars, promptVars>>

\* DELETE /api/report-templates/:id
DeleteReportTemplate(id) ==
    /\ IF IsSome(getReportTemplate(id))
       THEN /\ reportTemplates' = deleteReportTemplate(id)
            /\ tmplStatus' = 204
       ELSE /\ tmplStatus' = 404
            /\ UNCHANGED reportTemplates
    /\ UNCHANGED <<nextTemplateId, templatesCache>>
    /\ UNCHANGED <<renderVars, repoVars, reportVars, promptVars>>

\* the page's useQuery(["/api/report-templates"]) (re)fetching the list
FetchTemplates ==
    /\ templatesCache' = Some(reportTemplates)
    /\ templatesCache' # templatesCache
    /\ UNCHANGED <<reportTemplates, nextTemplateId, tmplStatus>>
    /\ UNCHANGED <<renderVars, repoVars, reportVars, promptVars>>

\* handleDeleteTemplate: `templates?.find(...)?.isDefault` on the cached list
CachedIsDefault(id) ==
    /\ IsSome(templatesCache)
    /\ \E t \in Val(templatesCache) : t.id = id /\ t.isDefault

\* handleDeleteTemplate(templateId): refuses a template the cache shows as
\* default, otherwise sends the DELETE request
handleDeleteTemplate(id) ==
    /\ ~CachedIsDefault(id)
    /\ DeleteReportTemplate(id)

TemplateIds == 1..MaxTemplates

NextTemplates ==
    \/ \E data \in TemplateInputs : PostReportTemplate(data)
    \/ \E id \in TemplateIds, d \in BOOLEAN : PutReportTemplate(id, d)
    \/ \E id \in TemplateIds : DeleteReportTemplate(id)
    \/ FetchTemplates
    \/ \E id \in TemplateIds : handleDeleteTemplate(id)

InitTemplates == RenderIdle /\ InitTemplateStore /\ InitRepoStore /\ ReportIdle /\ PromptIdle

SpecTemplates == InitTemplates /\ [][NextTemplates]_vars

----------------------------------------------------------------------------
(* Claims about report templates *)

\* C8: a template whose default flag is set is never removed: every step
\* keeps each stored default template stored (its flag may be cleared by an
\* update, after which it is no longer covered)
C8_DefaultTemplatesKept ==
    [][\A t \in reportTemplates :
          t.isDefault => \E u \in reportTemplates' : u.id = t.id]_vars


----------------------------------------------------------------------------
(* Repository routes: connect (demo and normal mode), sync, listings, delete *)

\* isDemoMode of POST /api/repositories
isDemoMode(token, fullName) ==
    token = "demo" \/ token = "test" \/ NameHasDemo(fullName)

\* the githubToken column POST /api/repositories stores
StoredToken(token, fullName) ==
    IF isDemoMode(token, fullName) THEN "demo-token-not-real" ELSE token

\* the row createRepository returned to the handler (`repository`)
CreatedRow(r) ==
    [id |-> r.repoId, fullName |-> r.fullName,
     githubToken |-> StoredToken(r.token, r.fullName)]

\* res.json(repository) of POST /api/repositories
CreateResponseBody(r) == {CreatedRow(r)}

\* slot k is the next unused one
Free(k) ==
    req[k].kind = "none" /\ (IF k = 1 THEN TRUE ELSE req[k - 1].kind # "none")

\* handler k moves to record `mine`; a write to pull_requests is noted by the
\* sync runs it interleaves with
Step(k, mine, wrote) ==
    req' = [j \in DOMAIN req |->
              IF j = k THEN mine
              ELSE IF wrote /\ req[j].pc \in {"syncLookup", "syncWrite"}
                   THEN [req[j] EXCEPT !.interfered = TRUE]
                   ELSE req[j]]

\* the handler answers; its loop variables are gone with it
Finish(r, status, body) ==
    [r EXCEPT !.pc = "done", !.status = status, !.body = body,
              !.prs = <<>>, !.i = 0, !.existing = 0, !.base = 0]

\* POST /api/repositories in demo mode, up to the first demo pull request:
\* createRepository with the placeholder token, then Math.random()
PostRepositoryDemo(k, fullName, token) ==
    /\ Free(k)
    /\ isDemoMode(token, fullName)
    /\ LET r == [NoRequest EXCEPT !.kind = "createRepo", !.fullName = fullName,
                                  !.token = token]
       IN IF FullNameTaken(fullName)
          THEN /\ Step(k, Finish(r, 500, {}), FALSE)
               /\ UNCHANGED <<repositories, nextRepoId>>
          ELSE /\ repositories' = repositories \cup
                      {[id |-> nextRepoId, fullName |-> fullName,
                        githubToken |-> StoredToken(token, fullName)]}
               /\ nextRepoId' = nextRepoId + 1
               /\ \E baseGithubId \in 0..(MaxGithubId - 2) :
                      Step(k, [r EXCEPT !.pc = "demoPR", !.repoId = nextRepoId,
                                        !.base = baseGithubId, !.i = 1], FALSE)
    /\ UNCHANGED <<pullRequests, nextPrId>>
    /\ UNCHANGED <<renderVars, templateVars, reportVars, promptVars>>

\* `for (const pr of demoPRs) await storage.createPullRequest(pr)`, one turn,
\* and after the second `return res.json(repository)`
DemoSeed(k) ==
    /\ req[k].pc = "demoPR"
    /\ LET r == req[k]
           data == demoPR(r.repoId, r.base, r.i)
       IN IF InsertRejected(data)
          THEN /\ Step(k, Finish(r, 500, {}), FALSE)
               /\ UNCHANGED <<pullRequests, nextPrId>>
          ELSE /\ pullRequests' = pullRequests \cup {WithId(nextPrId, data)}
               /\ nextPrId' = nextPrId + 1
               /\ LET r2 == [r EXCEPT !.created = @ \cup {nextPrId}, !.i = @ + 1]
                  IN IF r.i = 2
                     THEN Step(k, Finish(r2, 200, CreateResponseBody(r2)), TRUE)
                     ELSE Step(k, r2, TRUE)
    /\ UNCHANGED <<repositories, nextRepoId>>
    /\ UNCHANGED <<renderVars, templateVars, reportVars, promptVars>>

\* POST /api/repositories in normal mode, up to githubService.validateRepository
\* (one host call; `valid` is what the host answered)
PostRepository(k, fullName, token) ==
    /\ Free(k)
    /\ ~isDemoMode(token, fullName)
    /\ LET r == [NoRequest EXCEPT !.kind = "createRepo", !.fullName = fullName,
                                  !.token = token, !.ghCalls = 1,
                                  !.sentTokens = {token}]
       IN \E valid \in BOOLEAN :
            IF valid THEN Step(k, [r EXCEPT !.pc = "create"], FALSE)
            ELSE Step(k, Finish(r, 400, {}), FALSE)
    /\ UNCHANGED <<repositories, pullRequests, nextRepoId, nextPrId>>
    /\ UNCHANGED <<renderVars, templateVars, reportVars, promptVars>>

\* `const repository = await storage.createRepository(validatedData)`
CreateRepositoryRow(k) ==
    /\ req[k].pc = "create"
    /\ LET r == req[k]
       IN IF FullNameTaken(r.fullName)
          THEN /\ Step(k, Finish(r, 500, {}), FALSE)
               /\ UNCHANGED <<repositories, nextRepoId>>
          ELSE /\ repositories' = repositories \cup
                      {[id |-> nextRepoId, fullName |-> r.fullName,
                        githubToken |-> r.token]}
               /\ nextRepoId' = nextRepoId + 1
               /\ Step(k, [r EXCEPT !.pc = "syncFetch", !.repoId = nextRepoId], FALSE)
    /\ UNCHANGED <<pullRequests, nextPrId>>
    /\ UNCHANGED <<renderVars, templateVars, reportVars, promptVars>>

\* POST /api/repositories/:id/sync up to the call of syncPullRequests: the
\* repository object comes from getRepository, which copies no githubToken
PostSync(k, id) ==
    /\ Free(k)
    /\ LET r == [NoRequest EXCEPT !.kind = "sync", !.repoId = id]
           repository == getRepository(id)
       IN IF IsSome(repository)
          THEN Step(k, [r EXCEPT !.pc = "syncFetch",
                                 !.fullName = Val(repository).fullName,
                                 !.token = "undefined"], FALSE)
          ELSE Step(k, Finish(r, 404, {}), FALSE)
    /\ UNCHANGED <<repositories, pullRequests, nextRepoId, nextPrId>>
    /\ UNCHANGED <<renderVars, templateVars, reportVars, promptVars>>

\* a creation handler without the inner try/catch: the sync error reaches the
\* outer catch
SyncThrowsFailsRequest(r) == Finish(r, 500, {})

\* syncPullRequests threw: POST /api/repositories logs it and still answers the
\* repository, the sync route answers 500
SyncThrows(r) ==
    IF r.kind = "createRepo" THEN Finish(r, 200, CreateResponseBody(r))
    ELSE Finish(r, 500, {})

\* syncPullRequests returned
SyncReturns(r) ==
    LET s == [r EXCEPT !.synced = TRUE]
    IN IF r.kind = "createRepo" THEN Finish(s, 200, CreateResponseBody(s))
       ELSE Finish(s, 200, {})

\* the pull request is stored with exactly the data this sync would write
StoredAs(repositoryId, pr) ==
    \E p \in pullRequests : p = WithId(p.id, prData(repositoryId, pr))

\* syncPullRequests: the list request to the host, which fails or answers a list
SyncFetch(k) ==
    /\ req[k].pc = "syncFetch"
    /\ LET r == [req[k] EXCEPT !.ghCalls = @ + 1, !.sentTokens = @ \cup {req[k].token}]
       IN \/ Step(k, SyncThrows(r), FALSE)
          \/ \E prs \in UpstreamLists :
               IF prs = <<>> THEN Step(k, SyncReturns(r), FALSE)
               ELSE Step(k, [r EXCEPT !.pc = "syncLookup", !.prs = prs, !.i = 1,
                               !.repeat = \A n \in DOMAIN prs : StoredAs(r.repoId, prs[n])],
                         FALSE)
    /\ UNCHANGED <<repositories, pullRequests, nextRepoId, nextPrId>>
    /\ UNCHANGED <<renderVars, templateVars, reportVars, promptVars>>

\* `const existingPR = await storage.getPullRequestByGithubId(pr.id)`
SyncLookup(k) ==
    /\ req[k].pc = "syncLookup"
    /\ Step(k, [req[k] EXCEPT !.pc = "syncWrite",
                  !.existing = getPullRequestByGithubId(req[k].prs[req[k].i].id)], FALSE)
    /\ UNCHANGED <<repositories, pullRequests, nextRepoId, nextPrId>>
    /\ UNCHANGED <<renderVars, templateVars, reportVars, promptVars>>

\* the loop's next turn, or the return after the last pull request
SyncAdvance(r) ==
    IF r.i = Len(r.prs) THEN SyncReturns(r)
    ELSE [r EXCEPT !.pc = "syncLookup", !.i = @ + 1]

\* `if (existingPR) updatePullRequest(existingPR.id, prData) else createPullRequest(prData)`
SyncWrite(k) ==
    /\ req[k].pc = "syncWrite"
    /\ LET r == req[k]
           data == prData(r.repoId, r.prs[r.i])
       IN IF r.existing # 0
          THEN IF UpdateRejected(r.existing, data)
               THEN /\ Step(k, SyncThrows(r), FALSE)
                    /\ UNCHANGED <<pullRequests, nextPrId>>
               ELSE /\ pullRequests' = updatePullRequest(r.existing, data)
                    /\ Step(k, SyncAdvance([r EXCEPT !.changed = @ \/ pullRequests' # pullRequests]),
                            pullRequests' # pullRequests)
                    /\ UNCHANGED nextPrId
          ELSE IF InsertRejected(data)
               THEN /\ Step(k, SyncThrows(r), FALSE)
                    /\ UNCHANGED <<pullRequests, nextPrId>>
               ELSE /\ pullRequests' = pullRequests \cup {WithId(nextPrId, data)}
                    /\ nextPrId' = nextPrId + 1
                    /\ Step(k, SyncAdvance([r EXCEPT !.changed = TRUE,
                                                     !.created = @ \cup {nextPrId}]), TRUE)
    /\ UNCHANGED <<repositories, nextRepoId>>
    /\ UNCHANGED <<renderVars, templateVars, reportVars, promptVars>>

\* GET /api/repositories
GetRepositories(k) ==
    /\ Free(k)
    /\ Step(k, Finish([NoRequest EXCEPT !.kind = "listRepos"], 200,
                      {Sanitized(row) : row \in repositories}), FALSE)
    /\ UNCHANGED <<repositories, pullRequests, nextRepoId, nextPrId>>
    /\ UNCHANGED <<renderVars, templateVars, reportVars, promptVars>>

\* GET /api/pull-requests: each pull request with the repository it joins
GetPullRequests(k) ==
    /\ Free(k)
    /\ Step(k, Finish([NoRequest EXCEPT !.kind = "listPRs"], 200,
                      {Sanitized(row) : row \in
                          {x \in repositories : \E p \in pullRequests : p.repositoryId = x.id}}),
            FALSE)
    /\ UNCHANGED <<repositories, pullRequests, nextRepoId, nextPrId>>
    /\ UNCHANGED <<renderVars, templateVars, reportVars, promptVars>>

\* DELETE /api/repositories/:id: the delete is refused by the foreign key of
\* pull_requests while a pull request references the row
DeleteRepository(k, id) ==
    /\ Free(k)
    /\ LET r == [NoRequest EXCEPT !.kind = "deleteRepo", !.repoId = id]
       IN IF \E p \in pullRequests : p.repositoryId = id
          THEN /\ Step(k, Finish(r, 500, {}), FALSE)
               /\ UNCHANGED repositories
          ELSE IF RepoRowExists(id)
               THEN /\ repositories' = {x \in repositories : x.id # id}
                    /\ Step(k, Finish(r, 200, {}), FALSE)
               ELSE /\ Step(k, Finish(r, 404, {}), FALSE)
                    /\ UNCHANGED repositories
    /\ UNCHANGED <<pullRequests, nextRepoId, nextPrId>>
    /\ UNCHANGED <<renderVars, templateVars, reportVars, promptVars>>

Slots == 1..MaxRepoRequests

NextRepos ==
    \/ \E k \in Slots, n \in FullNames, t \in Tokens : PostRepositoryDemo(k, n, t)
    \/ \E k \in Slots : DemoSeed(k)
    \/ \E k \in Slots, n \in FullNames, t \in Tokens : PostRepository(k, n, t)
    \/ \E k \in Slots : CreateRepositoryRow(k)
    \/ \E k \in Slots, id \in Slots : PostSync(k, id)
    \/ \E k \in Slots : SyncFetch(k)
    \/ \E k \in Slots : SyncLookup(k)
    \/ \E k \in Slots : SyncWrite(k)
    \/ \E k \in Slots : GetRepositories(k)
    \/ \E k \in Slots : GetPullRequests(k)
    \/ \E k \in Slots, id \in Slots : DeleteRepository(k, id)

InitRepos == RenderIdle /\ InitTemplateStore /\ InitRepoStore /\ ReportIdle /\ PromptIdle

SpecRepos == InitRepos /\ [][NextRepos]_vars

----------------------------------------------------------------------------
(* Claims about the repository routes *)

Finished(k) == req[k].kind # "none" /\ req[k].pc = "done"

\* C4: no response body that carries repository data (the repository list,
\* the repository joined to a pull-request listing, the record answered by the
\* create-repository request) has a githubToken field.
C4_NoTokenInResponses ==
    \A k \in Slots :
        Finished(k) => \A repository \in req[k].body :
                           "githubToken" \notin DOMAIN repository

\* C9: every answered create-repository request with token "demo" succeeded,
\* made no call to the source-control client, and stored at least two pull
\* requests of its repository with pairwise-distinct external ids.
C9_DemoCreateAlwaysSucceeds ==
    \A k \in Slots :
        (Finished(k) /\ req[k].kind = "createRepo" /\ req[k].token = "demo") =>
            /\ req[k].status = 200
            /\ req[k].ghCalls = 0
            /\ LET mine == {p \in pullRequests :
                               p.id \in req[k].created /\ p.repositoryId = req[k].repoId}
               IN /\ Cardinality(mine) >= 2
                  /\ \A p, q \in mine : p.githubId = q.githubId => p = q

\* no two stored pull requests share an external identifier
UniqueGithubIds ==
    \A p, q \in pullRequests : p.githubId = q.githubId => p = q

\* a stored pull request keeps its row: the external id stays with the same
\* internal id
RowsKept ==
    \A p \in pullRequests :
        \E q \in pullRequests' : q.id = p.id /\ q.githubId = p.githubId

\* the run of syncPullRequests of slot k wrote its last pull request and returned
SyncCompletes(k) ==
    /\ req[k].pc = "syncWrite"
    /\ req'[k].pc = "done"
    /\ req'[k].synced

\* a sync that ran alone leaves every pull request of its list stored with the
\* data of the list, so the same list synced again is a repeat
SyncStoresList ==
    \A k \in Slots :
        (SyncCompletes(k) /\ ~req[k].interfered) =>
            \A n \in DOMAIN req[k].prs :
                \E p \in pullRequests' :
                    p = WithId(p.id, prData(req[k].repoId, req[k].prs[n]))

\* a sync of a list that is already stored, run alone, writes nothing new in
\* any turn of its loop and returns normally
RepeatedSyncKeepsTable ==
    \A k \in Slots :
        (/\ req[k].pc = "syncWrite" /\ req'[k].pc # "syncWrite"
         /\ req[k].repeat /\ ~req[k].interfered) =>
            /\ pullRequests' = pullRequests
            /\ req'[k].pc = "done" => req'[k].synced /\ req'[k].status = 200

\* C10: under any interleaving of syncs and demo seedings no two stored pull
\* requests share an external id; a pull request whose external id is stored
\* keeps its row and internal id when it is synced again; and syncing a list
\* that is already stored leaves the table as the first sync left it.
C10_ExternalIdIsTheKey ==
    /\ []UniqueGithubIds
    /\ [][RowsKept /\ SyncStoresList /\ RepeatedSyncKeepsTable]_vars

\* C10 witness: a sync of a list already stored ran alone over at least one
\* pull request and answered 200, with one row per external id in the table
C10_Witness ==
    \E k \in Slots :
        /\ Finished(k)
        /\ req[k].repeat
        /\ ~req[k].interfered
        /\ req[k].synced
        /\ req[k].status = 200
        /\ pullRequests # {}

----------------------------------------------------------------------------
(* Report routes: generate for a pull request, preview, download *)

\* the store the report requests run against: a demo repository with a seeded
\* pull request, a connected repository with a synced pull request, and a
\* template for the pm audience
SeededRepositories ==
    {[id |-> 1, fullName |-> "acme/demo-app", githubToken |-> "demo-token-not-real"],
     [id |-> 2, fullName |-> "acme/app", githubToken |-> "ghp_secret"]}

SeededPullRequests ==
    {WithId(1, demoPR(1, 0, 1)),
     WithId(2, prData(2, [id |-> 3, state |-> "open", merged_at |-> FALSE]))}

SeededTemplates ==
    {[id |-> 1, audienceType |-> "pm", isDefault |-> FALSE,
      systemPrompt |-> Some("custom prompt")]}

\* templateContent.systemPrompt of the stored template: missing, empty, custom
SeededPrompts == TemplatePrompts \cup {Some("")}

SeededTemplateStores ==
    {{[t EXCEPT !.systemPrompt = p] : t \in SeededTemplates} : p \in SeededPrompts}

\* ids a request may name: the stored ones and one that is not stored
UnknownId == 9
PullRequestIds == {1, 2, UnknownId}
TemplateIdInputs == {0, 1, UnknownId}      \* 0: no templateId in the body
ReportIdInputs == {1, 2, UnknownId}

\* audienceType values of a request body
AudienceInputs == {"pm", "qa", "dev"}

GoodContent == SampleContent("title", PlainText, "absent", "absent", "absent")

\* what JSON.parse(response.text) may yield, as nothing validates it: a full
\* content, an object without sections, an object without title, JSON null
ParsedContents ==
    {Some(GoodContent),
     Some([GoodContent EXCEPT !.sections = None]),
     Some([GoodContent EXCEPT !.title = None]),
     None}

\* a check that lets every template through
TemplateAlwaysMatches(template, audienceType) == TRUE

\* `template.audienceType !== audienceType` is false
TemplateMatches(template, audienceType) == template.audienceType = audienceType

\* isDemoRepo of the report route, on the repository getRepository returned:
\* that object has no githubToken, so only the name decides
isDemoRepo(repository) == NameHasDemo(repository.fullName)

\* `'title' in report.content`
HasTitle(content) == IsSome(content.title)

FreeR(k) ==
    rreq[k].kind = "none" /\ (IF k = 1 THEN TRUE ELSE rreq[k - 1].kind # "none")

StepR(k, mine) == rreq' = [rreq EXCEPT ![k] = mine]

Answer(r, status, served) ==
    [r EXCEPT !.pc = "done", !.status = status, !.served = served]

\* the catch of the route: 500 "Failed to generate report"
Fail(r, stage) == [Answer(r, 500, "json") EXCEPT !.failed = stage]

\* GeminiService.getSystemPromptForAudience: the base prompt plus the part for
\* the audience, named here by the audience it is written for
getSystemPromptForAudience(audienceType) ==
    CASE audienceType = "pm"     -> "base prompt + PROJECT MANAGEMENT perspective"
      [] audienceType = "qa"     -> "base prompt + QUALITY ASSURANCE perspective"
      [] audienceType = "client" -> "base prompt + CLIENT/STAKEHOLDER perspective"
      [] OTHER                   -> "base prompt + balanced perspective"

\* a resolution that never looks into the template content
PromptIgnoringTemplate(template) == getSystemPromptForAudience(template.audienceType)

\* GeminiService.getSystemPromptFromTemplate: `if (content.systemPrompt)` is
\* false for a missing and for an empty prompt
getSystemPromptFromTemplate(template) ==
    IF IsSome(template.systemPrompt) /\ Val(template.systemPrompt) # ""
    THEN Val(template.systemPrompt)
    ELSE getSystemPromptForAudience(template.audienceType)

\* `template ? getSystemPromptFromTemplate(template) : getSystemPromptForAudience(audienceType)`
ResolveSystemPrompt(template, audienceType) ==
    IF IsSome(template) THEN getSystemPromptFromTemplate(Val(template))
    ELSE getSystemPromptForAudience(audienceType)

\* a check that lets every audience value through
AnyAudience(audienceType) == TRUE

\* `["pm", "qa", "client"].includes(audienceType)`
ValidAudience(audienceType) == audienceType \in Audiences

\* POST /api/pull-requests/:id/reports up to the first call that leaves the
\* process: the audience check, the three lookups, the template check, the
\* demo decision and the GITHUB_TOKEN check
PostReport(k, prId, audienceType, templateId) ==
    /\ FreeR(k)
    /\ LET r == [NoReportRequest EXCEPT !.kind = "generate", !.prId = prId,
                     !.audienceType = audienceType, !.templateId = templateId]
           pullRequest == getPullRequest(prId)
           repository == IF IsSome(pullRequest)
                         THEN getRepository(Val(pullRequest).repositoryId) ELSE None
           template == getReportTemplate(templateId)
       IN IF ~ValidAudience(audienceType) THEN StepR(k, Answer(r, 400, "json"))
          ELSE IF ~IsSome(pullRequest) THEN StepR(k, Answer(r, 404, "json"))
          ELSE IF ~IsSome(repository) THEN StepR(k, Answer(r, 404, "json"))
          ELSE IF templateId # 0 /\ ~IsSome(template)
               THEN StepR(k, Answer(r, 404, "json"))
          ELSE IF templateId # 0 /\ ~TemplateMatches(Val(template), audienceType)
               THEN StepR(k, Answer(r, 400, "json"))
          ELSE LET rt == [r EXCEPT !.template = IF templateId # 0 THEN template ELSE None]
               IN IF isDemoRepo(Val(repository)) THEN StepR(k, [rt EXCEPT !.pc = "llm"])
                  ELSE IF ~envGithubToken THEN StepR(k, Fail(rt, "config"))
                  ELSE StepR(k, [rt EXCEPT !.pc = "details"])
    /\ UNCHANGED <<reports, files, nextReportId, envGithubToken, repositoryReports>>
    /\ UNCHANGED <<renderVars, templateVars, repoVars, promptVars>>

\* what a host call may do: answer 2xx, answer another status, or not answer
HostAnswers == {"2xx", "non-2xx", "network error"}

\* the answers to the three calls of getPullRequestDetails, in call order: PR
\* metadata, changed-file list, raw diff
DetailAnswers == [1..3 -> HostAnswers]

\* GitHubService.makeRequest throws: fetch rejected, or `!response.ok`
makeRequestThrows(answer) == answer # "2xx"

\* the raw-diff call is a bare fetch followed by text(): only a rejected fetch
\* throws, the status of the response is not looked at
diffFetchThrows(answer) == answer = "network error"

\* GitHubService.getPullRequestDetails on the given answers: whether it threw,
\* how many host calls it made, and whether one of them was answered non-2xx
getPullRequestDetails(answers) ==
    IF makeRequestThrows(answers[1])
    THEN [threw |-> TRUE, calls |-> 1, non2xx |-> answers[1] = "non-2xx"]
    ELSE IF makeRequestThrows(answers[2])
    THEN [threw |-> TRUE, calls |-> 2, non2xx |-> answers[2] = "non-2xx"]
    ELSE [threw |-> diffFetchThrows(answers[3]), calls |-> 3,
          non2xx |-> answers[3] = "non-2xx"]

\* githubService.getPullRequestDetails(githubToken, fullName, number) of the route
FetchDetails(k) ==
    /\ rreq[k].pc = "details"
    /\ \E answers \in DetailAnswers :
          LET details == getPullRequestDetails(answers)
              r == [rreq[k] EXCEPT !.ghCalls = @ + details.calls,
                                   !.non2xx = details.non2xx]
          IN IF details.threw THEN StepR(k, Fail(r, "details"))
             ELSE StepR(k, [r EXCEPT !.pc = "llm"])
    /\ UNCHANGED <<reports, files, nextReportId, envGithubToken, repositoryReports>>
    /\ UNCHANGED <<renderVars, templateVars, repoVars, promptVars>>

\* a generator that calls the model again after a failed call
GenerateContentWithRetry(k) ==
    /\ rreq[k].pc = "llm"
    /\ LET r == [rreq[k] EXCEPT !.llmCalls = @ + 1,
                   !.systemPrompt = ResolveSystemPrompt(rreq[k].template, rreq[k].audienceType)]
       IN \/ IF r.llmCalls < 2 THEN StepR(k, r) ELSE StepR(k, Fail(r, "llm"))
          \/ \E content \in ParsedContents :
                StepR(k, [r EXCEPT !.pc = "create", !.content = content])
    /\ UNCHANGED <<reports, files, nextReportId, envGithubToken, repositoryReports>>
    /\ UNCHANGED <<renderVars, templateVars, repoVars, promptVars>>

\* geminiService.generateReportContent: the call fails, the text is empty, the
\* text does not parse, or JSON.parse returns a value
GenerateContent(k) ==
    /\ rreq[k].pc = "llm"
    /\ LET r == [rreq[k] EXCEPT !.llmCalls = @ + 1,
                   !.systemPrompt = ResolveSystemPrompt(rreq[k].template, rreq[k].audienceType)]
       IN \/ \E error \in {"call fails", "empty text", "unparsable text"} :
                StepR(k, Fail(r, "llm"))
          \/ \E content \in ParsedContents :
                StepR(k, [r EXCEPT !.pc = "create", !.content = content])
    /\ UNCHANGED <<reports, files, nextReportId, envGithubToken, repositoryReports>>
    /\ UNCHANGED <<renderVars, templateVars, repoVars, promptVars>>

\* storage.createReport: reports.content is NOT NULL
CreateReport(k) ==
    /\ rreq[k].pc = "create"
    /\ rreq[k].kind = "generate"
    /\ LET r == rreq[k]
       IN IF ~IsSome(r.content)
          THEN /\ StepR(k, Fail(r, "create"))
               /\ UNCHANGED <<reports, nextReportId>>
          ELSE /\ reports' = reports \cup
                      {NewReport(nextReportId, r.prId, r.audienceType, Val(r.content))}
               /\ nextReportId' = nextReportId + 1
               /\ StepR(k, [r EXCEPT !.pc = "html", !.reportId = nextReportId])
    /\ UNCHANGED <<files, envGithubToken, repositoryReports>>
    /\ UNCHANGED <<renderVars, templateVars, repoVars, promptVars>>

\* the audienceType argument of generatePDF: the report's audience in the PR
\* route, the literal 'repository' in the repository route
pdfTag(r) == IF r.kind = "generateRepo" THEN "repository" ELSE r.audienceType

\* generatePDF up to puppeteer.launch: generateHTMLReport, then writeFileSync
WriteHtml(k) ==
    /\ rreq[k].pc = "html"
    /\ LET r == rreq[k]
       IN IF RenderThrows(Val(r.content))
          THEN /\ StepR(k, Fail(r, "render"))
               /\ UNCHANGED files
          ELSE /\ files' = files \cup {HtmlPath(r.reportId, pdfTag(r))}
               /\ StepR(k, [r EXCEPT !.pc = "launch"])
    /\ UNCHANGED <<reports, nextReportId, envGithubToken, repositoryReports>>
    /\ UNCHANGED <<renderVars, templateVars, repoVars, promptVars>>

\* a handler that stores the path and answers before the file is rendered
BackfillBeforePrint(k) ==
    /\ rreq[k].pc = "launch"
    /\ reports' = updateReport(rreq[k].reportId,
                               PdfPath(rreq[k].reportId, rreq[k].audienceType))
    /\ StepR(k, Answer(rreq[k], 200, "json"))
    /\ UNCHANGED <<files, nextReportId, envGithubToken, repositoryReports>>
    /\ UNCHANGED <<renderVars, templateVars, repoVars, promptVars>>

\* puppeteer.launch resolves with a browser or rejects
LaunchBrowser(k) ==
    /\ rreq[k].pc = "launch"
    /\ LET r == rreq[k]
       IN \E ok \in BOOLEAN :
            IF ok THEN StepR(k, [r EXCEPT !.pc = "print", !.browser = "open"])
            ELSE StepR(k, Fail(r, "render"))
    /\ UNCHANGED <<reports, files, nextReportId, envGithubToken, repositoryReports>>
    /\ UNCHANGED <<renderVars, templateVars, repoVars, promptVars>>

\* a generatePDF that closes the browser after page.pdf only, with no finally
PrintPdfNoFinally(k) ==
    /\ rreq[k].pc = "print"
    /\ LET r == rreq[k]
       IN \E outcome \in {"page load fails", "pdf write fails", "pdf written"} :
            IF outcome = "pdf written"
            THEN /\ files' = files \cup {PdfPath(r.reportId, pdfTag(r))}
                 /\ StepR(k, [r EXCEPT !.pc = "backfill", !.browser = "closed"])
            ELSE /\ StepR(k, Fail(r, "render"))
                 /\ UNCHANGED files
    /\ UNCHANGED <<reports, nextReportId, envGithubToken, repositoryReports>>
    /\ UNCHANGED <<renderVars, templateVars, repoVars, promptVars>>

\* page.setContent and page.pdf inside try, browser.close in finally
PrintPdf(k) ==
    /\ rreq[k].pc = "print"
    /\ LET r == [rreq[k] EXCEPT !.browser = "closed"]
       IN \E outcome \in {"page load fails", "pdf write fails", "pdf written"} :
            IF outcome = "pdf written"
            THEN /\ files' = files \cup {PdfPath(r.reportId, pdfTag(r))}
                 /\ StepR(k, [r EXCEPT !.pc = "backfill"])
            ELSE /\ StepR(k, Fail(r, "render"))
                 /\ UNCHANGED files
    /\ UNCHANGED <<reports, nextReportId, envGithubToken, repositoryReports>>
    /\ UNCHANGED <<renderVars, templateVars, repoVars, promptVars>>

\* storage.updateReport(report.id, { pdfPath }) and res.json
BackfillPath(k) ==
    /\ rreq[k].pc = "backfill"
    /\ rreq[k].kind = "generate"
    /\ reports' = updateReport(rreq[k].reportId,
                               PdfPath(rreq[k].reportId, rreq[k].audienceType))
    /\ StepR(k, Answer(rreq[k], 200, "json"))
    /\ UNCHANGED <<files, nextReportId, envGithubToken, repositoryReports>>
    /\ UNCHANGED <<renderVars, templateVars, repoVars, promptVars>>

\* the report is stored with content, its HTML file is on disk, its pdfPath was
\* never set, and the request that generated it has been answered 500
HtmlWritten(id) ==
    /\ \E row \in reports :
          /\ row.id = id
          /\ row.pdfPath = None
          /\ HtmlPath(id, row.audienceType) \in files
    /\ \E j \in DOMAIN rreq :
          /\ rreq[j].kind = "generate"
          /\ rreq[j].reportId = id
          /\ rreq[j].pc = "done"
          /\ rreq[j].status = 500

\* GET /api/reports/:id/preview
GetPreview(k, id) ==
    /\ FreeR(k)
    /\ LET r == [NoReportRequest EXCEPT !.kind = "preview", !.reportId = id,
                                        !.htmlOnly = HtmlWritten(id)]
           report == getReport(id)
       IN IF ~IsSome(report) THEN StepR(k, Answer(r, 404, "json"))
          ELSE IF HasTitle(Val(report).content) /\ ~RenderThrows(Val(report).content)
               THEN StepR(k, Answer(r, 200, "html"))
          ELSE IF /\ IsSome(Val(report).pdfPath)
                  /\ ReplaceExt(Val(Val(report).pdfPath)) \in files
               THEN StepR(k, Answer(r, 200, "html"))
          ELSE StepR(k, Answer(r, 404, "json"))
    /\ UNCHANGED <<reports, files, nextReportId, envGithubToken, repositoryReports>>
    /\ UNCHANGED <<renderVars, templateVars, repoVars, promptVars>>

\* a download handler that takes every stored path for an existing PDF
AssumePdf(pdfPath) == TRUE

\* `report.pdfPath.endsWith('.pdf') && fs.existsSync(report.pdfPath)`
hasPdf(pdfPath) == pdfPath.ext = "pdf" /\ pdfPath \in files

\* the report is stored with a path, and no PDF file is at that path
PdfMissing(id) ==
    \E row \in reports :
        /\ row.id = id
        /\ IsSome(row.pdfPath)
        /\ ~(Val(row.pdfPath).ext = "pdf" /\ Val(row.pdfPath) \in files)

\* GET /api/reports/:id/download; when the stored path is not an existing PDF
\* the handler runs generatePDF again, and `rendered` is whether the browser
\* steps of that run succeed
GetDownload(k, id) ==
    /\ FreeR(k)
    /\ LET r == [NoReportRequest EXCEPT !.kind = "download", !.reportId = id,
                                        !.htmlOnly = HtmlWritten(id),
                                        !.missingPdf = PdfMissing(id)]
           report == getReport(id)
       IN IF ~IsSome(report) \/ ~IsSome(Val(report).pdfPath)
          THEN /\ StepR(k, Answer(r, 404, "json"))
               /\ UNCHANGED <<reports, files>>
          ELSE LET row == Val(report)
                   pdfPath == Val(row.pdfPath)
                   htmlPath == ReplaceExt(pdfPath)
               IN IF hasPdf(pdfPath)
                  THEN /\ StepR(k, Answer(r, 200, "pdf"))
                       /\ UNCHANGED <<reports, files>>
                  ELSE IF HasTitle(row.content) /\ ~RenderThrows(row.content)
                  THEN \E rendered \in BOOLEAN :
                         IF rendered
                         THEN /\ files' = files \cup {HtmlPath(id, row.audienceType),
                                                      PdfPath(id, row.audienceType)}
                              /\ reports' = updateReport(id, PdfPath(id, row.audienceType))
                              /\ StepR(k, Answer([r EXCEPT !.regen = "ok"], 200, "pdf"))
                         ELSE /\ files' = files \cup {HtmlPath(id, row.audienceType)}
                              /\ UNCHANGED reports
                              /\ StepR(k, Answer([r EXCEPT !.regen = "failed"],
                                                 IF htmlPath \in files' THEN 200 ELSE 404,
                                                 IF htmlPath \in files' THEN "html" ELSE "json"))
                  ELSE /\ StepR(k, Answer([r EXCEPT !.regen = IF HasTitle(row.content)
                                                              THEN "failed" ELSE "none"],
                                          IF htmlPath \in files THEN 200 ELSE 404,
                                          IF htmlPath \in files THEN "html" ELSE "json"))
                       /\ UNCHANGED <<reports, files>>
    /\ UNCHANGED <<nextReportId, envGithubToken, repositoryReports>>
    /\ UNCHANGED <<renderVars, templateVars, repoVars, promptVars>>

\* the reports/ directory is local disk and the table is not: a file of a
\* stored report goes missing (the handlers test fs.existsSync for this);
\* files go missing between renders, as on a redeploy, not under a running one
RemoveFile(path) ==
    /\ path \in files
    /\ \A k \in DOMAIN rreq : rreq[k].pc \in {"done", "details", "llm", "create"}
    /\ files' = files \ {path}
    /\ UNCHANGED <<reports, nextReportId, envGithubToken, rreq, repositoryReports>>
    /\ UNCHANGED <<renderVars, templateVars, repoVars, promptVars>>

\* every path generatePDF can have written
AllPaths ==
    {[reportId |-> i, audienceType |-> a, ext |-> e] :
        i \in 1..MaxReportRequests, a \in Audiences, e \in {"pdf", "html"}}

----------------------------------------------------------------------------
(* Repository-scope reports: POST /api/repositories/:id/reports *)

\* reportType values of a request body (absent means "mvp_summary")
ReportTypeInputs == {"mvp_summary", "client_overview"}

\* GeminiService.getRepositorySystemPrompt
getRepositorySystemPrompt(reportType) ==
    CASE reportType = "mvp_summary"     -> "repository prompt + MVP summary"
      [] reportType = "client_overview" -> "repository prompt + client overview"
      [] OTHER                          -> "repository prompt + comprehensive analysis"

\* systemPrompt of generateRepositoryReportContent
ResolveRepositoryPrompt(template, reportType) ==
    IF /\ IsSome(template)
       /\ IsSome(Val(template).systemPrompt)
       /\ Val(Val(template).systemPrompt) # ""
    THEN Val(Val(template).systemPrompt)
    ELSE getRepositorySystemPrompt(reportType)

\* DatabaseStorage.getPullRequestsByRepository
getPullRequestsByRepository(repositoryId) ==
    {p \in pullRequests : p.repositoryId = repositoryId}

\* the row createRepositoryReport stores
NewRepositoryReport(id, repositoryId, reportType, content, templateId) ==
    [id |-> id, repositoryId |-> repositoryId, reportType |-> reportType,
     content |-> content, pdfPath |-> None, templateId |-> templateId]

\* DatabaseStorage.updateRepositoryReport(id, { pdfPath })
updateRepositoryReport(id, pdfPath) ==
    {IF r.id = id THEN [r EXCEPT !.pdfPath = Some(pdfPath)] ELSE r : r \in repositoryReports}

\* POST /api/repositories/:id/reports up to the LLM call: the repository
\* lookup, the pull-request list, and the template lookup made while the
\* arguments of generateRepositoryReportContent are evaluated, whose miss is
\* passed on as `undefined`
PostRepositoryReport(k, repositoryId, reportType, templateId) ==
    /\ FreeR(k)
    /\ LET r == [NoReportRequest EXCEPT !.kind = "generateRepo",
                     !.repositoryId = repositoryId, !.reportType = reportType,
                     !.templateId = templateId]
       IN IF ~IsSome(getRepository(repositoryId))
          THEN StepR(k, Answer(r, 404, "json"))
          ELSE IF getPullRequestsByRepository(repositoryId) = {}
          THEN StepR(k, Answer(r, 400, "json"))
          ELSE StepR(k, [r EXCEPT !.pc = "llmRepo",
                           !.template = IF templateId # 0
                                        THEN getReportTemplate(templateId) ELSE None])
    /\ UNCHANGED <<reports, files, nextReportId, envGithubToken, repositoryReports>>
    /\ UNCHANGED <<renderVars, templateVars, repoVars, promptVars>>

\* geminiService.generateRepositoryReportContent
GenerateRepositoryContent(k) ==
    /\ rreq[k].pc = "llmRepo"
    /\ LET r == [rreq[k] EXCEPT !.llmCalls = @ + 1,
                   !.systemPrompt = ResolveRepositoryPrompt(rreq[k].template, rreq[k].reportType)]
       IN \/ \E error \in {"call fails", "empty text", "unparsable text"} :
                StepR(k, Fail(r, "llm"))
          \/ \E content \in ParsedContents :
                StepR(k, [r EXCEPT !.pc = "create", !.content = content])
    /\ UNCHANGED <<reports, files, nextReportId, envGithubToken, repositoryReports>>
    /\ UNCHANGED <<renderVars, templateVars, repoVars, promptVars>>

\* storage.createRepositoryReport: repository_reports.content is NOT NULL
CreateRepositoryReport(k) ==
    /\ rreq[k].pc = "create"
    /\ rreq[k].kind = "generateRepo"
    /\ LET r == rreq[k]
       IN IF ~IsSome(r.content)
          THEN /\ StepR(k, Fail(r, "create"))
               /\ UNCHANGED <<repositoryReports, nextReportId>>
          ELSE /\ repositoryReports' = repositoryReports \cup
                      {NewRepositoryReport(nextReportId, r.repositoryId, r.reportType,
                                           Val(r.content), r.templateId)}
               /\ nextReportId' = nextReportId + 1
               /\ StepR(k, [r EXCEPT !.pc = "html", !.reportId = nextReportId])
    /\ UNCHANGED <<reports, files, envGithubToken>>
    /\ UNCHANGED <<renderVars, templateVars, repoVars, promptVars>>

\* storage.updateRepositoryReport(report.id, { pdfPath }) and res.json
BackfillRepositoryPath(k) ==
    /\ rreq[k].pc = "backfill"
    /\ rreq[k].kind = "generateRepo"
    /\ repositoryReports' = updateRepositoryReport(rreq[k].reportId,
                                PdfPath(rreq[k].reportId, pdfTag(rreq[k])))
    /\ StepR(k, Answer(rreq[k], 200, "json"))
    /\ UNCHANGED <<reports, files, nextReportId, envGithubToken>>
    /\ UNCHANGED <<renderVars, templateVars, repoVars, promptVars>>

RepositoryIdInputs == {1, 2, UnknownId}

ReportSlots == 1..MaxReportRequests

NextReports ==
    \/ \E k \in ReportSlots, p \in PullRequestIds, a \in AudienceInputs,
          t \in TemplateIdInputs : PostReport(k, p, a, t)
    \/ \E k \in ReportSlots : FetchDetails(k)
    \/ \E k \in ReportSlots : GenerateContent(k)
    \/ \E k \in ReportSlots : CreateReport(k)
    \/ \E k \in ReportSlots : WriteHtml(k)
    \/ \E k \in ReportSlots : LaunchBrowser(k)
    \/ \E k \in ReportSlots : PrintPdf(k)
    \/ \E k \in ReportSlots : BackfillPath(k)
    \/ \E k \in ReportSlots, id \in ReportIdInputs : GetPreview(k, id)
    \/ \E k \in ReportSlots, id \in ReportIdInputs : GetDownload(k, id)
    \/ \E path \in AllPaths : RemoveFile(path)

InitReports ==
    /\ RenderIdle
    /\ PromptIdle
    /\ reportTemplates \in SeededTemplateStores
    /\ nextTemplateId = 2
    /\ templatesCache = None
    /\ tmplStatus = 0
    /\ repositories = SeededRepositories
    /\ pullRequests = SeededPullRequests
    /\ nextRepoId = 3
    /\ nextPrId = 3
    /\ req = [k \in 1..MaxRepoRequests |-> NoRequest]
    /\ reports = {}
    /\ files = {}
    /\ nextReportId = 1
    /\ envGithubToken \in BOOLEAN
    /\ rreq = [k \in ReportSlots |-> NoReportRequest]
    /\ repositoryReports = {}

SpecReports == InitReports /\ [][NextReports]_vars

----------------------------------------------------------------------------
(* Claims about the report routes *)

Generated(k) == rreq[k].kind = "generate" /\ rreq[k].pc = "done"

\* the request named a stored template made for another audience
TemplateMismatch(k) ==
    /\ rreq[k].templateId # 0
    /\ \E t \in reportTemplates :
          t.id = rreq[k].templateId /\ t.audienceType # rreq[k].audienceType

\* C1: a report-generation request that names a stored template whose
\* audienceType differs from the requested one is refused with a 4xx status,
\* which is 400 whenever the pull request it addresses is stored, made no LLM
\* call, and created no report row.
C1_TemplateMismatchRefused ==
    \A k \in ReportSlots :
        (Generated(k) /\ TemplateMismatch(k)) =>
            /\ rreq[k].status \in {400, 404}
            /\ IsSome(getPullRequest(rreq[k].prId)) => rreq[k].status = 400
            /\ rreq[k].llmCalls = 0
            /\ rreq[k].reportId = 0
            /\ Cardinality(reports) =
                   Cardinality({j \in ReportSlots : rreq[j].kind = "generate"
                                                     /\ rreq[j].reportId # 0})

\* C1 witness: a request for a stored pull request with a valid audience and
\* the pm template, asked for another audience, was answered 400
C1_Witness ==
    \E k \in ReportSlots :
        /\ Generated(k)
        /\ TemplateMismatch(k)
        /\ rreq[k].audienceType \in Audiences
        /\ IsSome(getPullRequest(rreq[k].prId))
        /\ rreq[k].status = 400

\* C2: a generation request whose details fetch or LLM call failed is answered
\* 500 and has no report row; one whose rendering step failed after both
\* succeeded is answered 500 and its report row stays stored with the
\* generated content and no pdfPath.
C2_FailureLeavesRowOnlyAfterContent ==
    \A k \in ReportSlots :
        Generated(k) =>
            /\ rreq[k].failed \in {"details", "llm"} =>
                   /\ rreq[k].status = 500
                   /\ rreq[k].reportId = 0
                   /\ Cardinality(reports) =
                          Cardinality({j \in ReportSlots : rreq[j].kind = "generate"
                                                            /\ rreq[j].reportId # 0})
            /\ rreq[k].failed = "render" =>
                   /\ rreq[k].status = 500
                   /\ rreq[k].llmCalls = 1
                   /\ \E row \in reports :
                         /\ row.id = rreq[k].reportId
                         /\ row.pullRequestId = rreq[k].prId
                         /\ Some(row.content) = rreq[k].content
                         /\ row.pdfPath = None

\* C2 witness: one request failed in the LLM call and another failed in
\* rendering after its HTML file was written
C2_Witness ==
    \E k, j \in ReportSlots :
        /\ Generated(k) /\ rreq[k].failed = "llm"
        /\ Generated(j) /\ rreq[j].failed = "render"
        /\ \E row \in reports : row.id = rreq[j].reportId
                                /\ HtmlPath(row.id, row.audienceType) \in files

\* C3: a download or preview request for a report that has content and an
\* HTML file but whose PDF rendering failed during generation is not
\* answered 404.
C3_HtmlWrittenStaysServable ==
    \A k \in ReportSlots :
        (rreq[k].kind \in {"download", "preview"} /\ rreq[k].pc = "done"
            /\ rreq[k].htmlOnly) => rreq[k].status # 404

\* the report rows are exactly those the generation requests created
RowsMatchRequests ==
    Cardinality(reports) =
        Cardinality({j \in ReportSlots : rreq[j].kind = "generate" /\ rreq[j].reportId # 0})

\* C11: every stored report has audience pm, qa or client; a generation
\* request with another audience value is answered 400 in its first step,
\* whether or not the pull request and template it names exist, with no host
\* call, no LLM call and no report row.
C11_OnlyKnownAudiencesStored ==
    /\ \A row \in reports : row.audienceType \in {"pm", "qa", "client"}
    /\ RowsMatchRequests
    /\ \A k \in ReportSlots :
          (rreq[k].kind = "generate" /\ rreq[k].audienceType \notin {"pm", "qa", "client"}) =>
              /\ rreq[k].pc = "done"
              /\ rreq[k].status = 400
              /\ rreq[k].ghCalls = 0
              /\ rreq[k].llmCalls = 0
              /\ rreq[k].reportId = 0

\* C11 witness: a request with audience "dev" for a pull request that is not
\* stored was answered 400, and another request stored a report
C11_Witness ==
    /\ reports # {}
    /\ \E k \in ReportSlots :
          /\ rreq[k].kind = "generate"
          /\ rreq[k].audienceType = "dev"
          /\ rreq[k].prId = UnknownId
          /\ rreq[k].status = 400

\* the built-in system prompt of each audience
BuiltInPrompt ==
    [a \in {"pm", "qa", "client"} |->
        CASE a = "pm"  -> "base prompt + PROJECT MANAGEMENT perspective"
          [] a = "qa"  -> "base prompt + QUALITY ASSURANCE perspective"
          [] OTHER     -> "base prompt + CLIENT/STAKEHOLDER perspective"]

\* the stored template request k names has a non-empty override prompt
HasOverride(k) ==
    /\ rreq[k].templateId # 0
    /\ \E t \in reportTemplates :
          t.id = rreq[k].templateId /\ IsSome(t.systemPrompt) /\ Val(t.systemPrompt) # ""

\* C12: the system prompt a PR report request sends to the LLM is the named
\* template's override prompt verbatim when that is non-empty, and otherwise
\* the built-in prompt of the requested audience; an audience value outside
\* pm, qa, client resolves to the generic prompt.
C12_SystemPromptResolution ==
    /\ \A k \in ReportSlots :
          (rreq[k].kind = "generate" /\ rreq[k].llmCalls > 0) =>
              IF HasOverride(k)
              THEN \E t \in reportTemplates :
                      t.id = rreq[k].templateId /\ rreq[k].systemPrompt = Val(t.systemPrompt)
              ELSE rreq[k].systemPrompt = BuiltInPrompt[rreq[k].audienceType]
    /\ \A a \in AudienceInputs \ {"pm", "qa", "client"} :
          ResolveSystemPrompt(None, a) = "base prompt + balanced perspective"

\* C12 witness: one request sent a template's custom prompt and another,
\* without template, sent the built-in prompt of the qa audience
C12_Witness ==
    \E k, j \in ReportSlots :
        /\ rreq[k].llmCalls > 0 /\ HasOverride(k)
        /\ rreq[k].systemPrompt = "custom prompt"
        /\ rreq[j].llmCalls > 0 /\ rreq[j].templateId = 0
        /\ rreq[j].systemPrompt = BuiltInPrompt["qa"]

\* the value lacks one of the required fields title, summary, sections
\* (JSON null lacks them all)
MissingRequired(parsed) ==
    \/ ~IsSome(parsed)
    \/ ~IsSome(Val(parsed).title)
    \/ ~IsSome(Val(parsed).summary)
    \/ ~IsSome(Val(parsed).sections)

\* generateReportContent of request k returned a value to the route
GeneratorReturned(k) ==
    /\ rreq[k].kind = "generate"
    /\ rreq[k].llmCalls > 0
    /\ rreq[k].failed # "llm"

\* C13: the content generator hands a value to the route only when it has the
\* required fields title, summary and sections, and a request whose LLM
\* response lacks one of them stores no report.
C13_OnlyCompleteContentReturned ==
    \A k \in ReportSlots :
        GeneratorReturned(k) =>
            /\ ~MissingRequired(rreq[k].content)
            /\ rreq[k].reportId # 0 =>
                   \E row \in reports : row.id = rreq[k].reportId
                                        /\ ~MissingRequired(Some(row.content))

\* C14: a details fetch in which one of the three host calls was answered with
\* a non-2xx status fails: the request is answered 500 from the fetch, no PR
\* details reach the LLM call, and no host call is repeated.
C14_DetailsFailOnAnyNon2xx ==
    \A k \in ReportSlots :
        (rreq[k].kind = "generate" /\ rreq[k].non2xx) =>
            /\ rreq[k].failed = "details"
            /\ rreq[k].llmCalls = 0
            /\ rreq[k].ghCalls <= 3

\* request k is a download answered in this step for a report whose stored
\* path was not an existing PDF file
DownloadsMissingPdf(k) ==
    /\ rreq[k].kind = "none"
    /\ rreq'[k].kind = "download"
    /\ rreq'[k].missingPdf

\* the stored content of the report request k names can be rendered
UsableContent(k) ==
    \E row \in reports : /\ row.id = rreq'[k].reportId
                         /\ ~MissingRequired(Some(row.content))

\* C15: a download of a report whose stored path is not an existing PDF first
\* runs the regeneration when the content is usable; when that succeeds the
\* PDF is on disk, the row's path is that PDF and the PDF is served; the HTML
\* file is served only when regeneration failed or was not possible, and 404
\* is answered only when then there is no HTML file either.
C15_RegenerateBeforeFallback ==
    [][\A k \in ReportSlots :
          DownloadsMissingPdf(k) =>
            LET r == rreq'[k]
                row == CHOOSE x \in reports' : x.id = r.reportId
                pdf == PdfPath(row.id, row.audienceType)
                html == HtmlPath(row.id, row.audienceType)
            IN /\ UsableContent(k) => r.regen \in {"ok", "failed"}
               /\ r.regen = "ok" =>
                     /\ r.status = 200 /\ r.served = "pdf"
                     /\ pdf \in files'
                     /\ row.pdfPath = Some(pdf)
               /\ r.regen # "ok" =>
                     /\ reports' = reports
                     /\ IF html \in files'
                        THEN r.status = 200 /\ r.served = "html"
                        ELSE r.status = 404
               /\ r.served = "pdf" => r.regen = "ok"
      ]_vars

\* C15 witness: the PDF of a generated report went missing and a download
\* regenerated and served it
C15_Witness ==
    \E k \in ReportSlots :
        /\ rreq[k].kind = "download"
        /\ rreq[k].missingPdf
        /\ rreq[k].regen = "ok"
        /\ rreq[k].served = "pdf"

\* C15 second case reached: the regeneration failed and the HTML file was served
C15_FallbackReached ==
    \E k \in ReportSlots :
        /\ rreq[k].kind = "download"
        /\ rreq[k].missingPdf
        /\ rreq[k].regen = "failed"
        /\ rreq[k].served = "html"

----------------------------------------------------------------------------
(* Concurrent report generations *)

\* the generation requests that stored a row
Creators == {k \in ReportSlots : rreq[k].kind = "generate" /\ rreq[k].reportId # 0}

\* the row of generation request r as r alone determines it: its own pull
\* request, audience and content, and, once it was answered with success, the
\* path named after its own report id
OwnRow(r) ==
    [id |-> r.reportId, pullRequestId |-> r.prId, audienceType |-> r.audienceType,
     content |-> Val(r.content),
     pdfPath |-> IF r.pc = "done" /\ r.status = 200
                 THEN Some(PdfPath(r.reportId, r.audienceType)) ELSE None]

\* the reports table is what the requests would leave one after the other:
\* one row per creating request, no two requests sharing a row or a file path
EachItsOwnRow ==
    /\ reports = {OwnRow(rreq[k]) : k \in Creators}
    /\ \A j, k \in Creators : j # k => rreq[j].reportId # rreq[k].reportId
    /\ \A x, y \in reports :
          x.id # y.id /\ IsSome(x.pdfPath) => x.pdfPath # y.pdfPath
    /\ \A f \in files : \E x \in reports :
          f \in {PdfPath(x.id, x.audienceType), HtmlPath(x.id, x.audienceType)}

\* request k is answered with success in this step
SucceedsNow(k) ==
    /\ rreq[k].kind = "generate"
    /\ rreq[k].pc # "done"
    /\ rreq'[k].pc = "done"
    /\ rreq'[k].status = 200

\* C19: under every interleaving of the stages of two generation requests the
\* reports table holds exactly one row per request, with that request's pull
\* request, content and a path derived from its own report id, and a request
\* answered with success leaves its own two files on disk: the state two
\* requests run one after the other would leave
C19_ConcurrentGenerationsIndependent ==
    /\ []EachItsOwnRow
    /\ [][\A k \in ReportSlots :
             SucceedsNow(k) =>
                 {PdfPath(rreq[k].reportId, rreq[k].audienceType),
                  HtmlPath(rreq[k].reportId, rreq[k].audienceType)} \subseteq files']_vars

\* two generations for different pull requests, both past their row and their
\* files while the other is still running
C19_Witness ==
    /\ rreq[1].kind = "generate" /\ rreq[2].kind = "generate"
    /\ rreq[1].prId # rreq[2].prId
    /\ rreq[1].pc = "backfill" /\ rreq[2].pc = "backfill"
    /\ EachItsOwnRow
    /\ Cardinality(reports) = 2

----------------------------------------------------------------------------
(* Repository creation whose initial sync fails *)

\* request k, a non-demo creation that stored its row, ends in this step
\* without its sync having returned
InitialSyncFails(k) ==
    /\ req[k].kind = "createRepo"
    /\ req[k].pc \in {"syncFetch", "syncLookup", "syncWrite"}
    /\ req'[k].pc = "done"
    /\ ~req'[k].synced

\* C18: when the initial sync of a non-demo creation fails, the request is
\* answered 200 with the repository row it created, and the failure removes
\* nothing from the repositories table
C18_SyncFailureKeepsRepository ==
    [][\A k \in Slots :
          InitialSyncFails(k)
              => /\ req'[k].status = 200
                 /\ repositories' = repositories
                 /\ req'[k].body = {[id |-> req[k].repoId, fullName |-> req[k].fullName,
                                     githubToken |-> req[k].token]}
                 /\ \A x \in repositories : x.id = req[k].repoId => req'[k].body = {x}]_vars

\* a creation answered 200 after a failed sync, its row still stored
C18_Witness ==
    \E k \in Slots :
        /\ Finished(k)
        /\ req[k].kind = "createRepo"
        /\ req[k].repoId # 0
        /\ ~req[k].synced
        /\ req[k].status = 200
        /\ \E x \in repositories : x.id = req[k].repoId /\ req[k].body = {x}

----------------------------------------------------------------------------
(* Writers of a row *)

\* request k executes updatePullRequest on row id in this step
UpdatesPullRequest(k, id) ==
    /\ req[k].pc = "syncWrite"
    /\ req'[k].pc # "syncWrite"
    /\ req[k].existing = id
    /\ ~UpdateRejected(id, prData(req[k].repoId, req[k].prs[req[k].i]))

\* C20: a row is written only by the request that created it; stated for the
\* pull_requests table: every update of a pull-request row is made by the
\* request whose insert created that row
C20_RowsWrittenByOwnerOnly ==
    [][\A k \in Slots :
          \A id \in {p.id : p \in pullRequests} :
              UpdatesPullRequest(k, id) => id \in req[k].created]_vars

----------------------------------------------------------------------------
(* The token a sync request sends *)

\* C28: every host call of a sync request carries the access token stored in
\* the row of the repository it syncs
C28_SyncSendsStoredToken ==
    \A k \in Slots :
        req[k].kind = "sync"
            => \A x \in repositories :
                   x.id = req[k].repoId => req[k].sentTokens \subseteq {x.githubToken}

----------------------------------------------------------------------------
(* Repository-scope reports and their download *)

NextRepositoryReports ==
    \/ \E k \in ReportSlots, id \in RepositoryIdInputs, t \in ReportTypeInputs,
          tid \in TemplateIdInputs : PostRepositoryReport(k, id, t, tid)
    \/ \E k \in ReportSlots : GenerateRepositoryContent(k)
    \/ \E k \in ReportSlots : CreateRepositoryReport(k)
    \/ \E k \in ReportSlots : WriteHtml(k)
    \/ \E k \in ReportSlots : LaunchBrowser(k)
    \/ \E k \in ReportSlots : PrintPdf(k)
    \/ \E k \in ReportSlots : BackfillRepositoryPath(k)
    \/ \E k \in ReportSlots, id \in ReportIdInputs : GetPreview(k, id)
    \/ \E k \in ReportSlots, id \in ReportIdInputs : GetDownload(k, id)

\* the seeded store, with the connected repository holding its synced pull
\* request or none yet
InitRepositoryReports ==
    /\ RenderIdle
    /\ PromptIdle
    /\ reportTemplates \in SeededTemplateStores
    /\ nextTemplateId = 2
    /\ templatesCache = None
    /\ tmplStatus = 0
    /\ repositories = SeededRepositories
    /\ pullRequests \in {SeededPullRequests, {p \in SeededPullRequests : p.repositoryId = 1}}
    /\ nextRepoId = 3
    /\ nextPrId = 3
    /\ req = [k \in 1..MaxRepoRequests |-> NoRequest]
    /\ reports = {}
    /\ files = {}
    /\ nextReportId = 1
    /\ envGithubToken = TRUE
    /\ rreq = [k \in ReportSlots |-> NoReportRequest]
    /\ repositoryReports = {}

SpecRepositoryReports == InitRepositoryReports /\ [][NextRepositoryReports]_vars

\* a report the generation route answered with success: its row carries the
\* path of the file generatePDF wrote
GeneratedReportIds ==
    {row.id : row \in {x \in reports : IsSome(x.pdfPath)}} \cup
    {row.id : row \in {x \in repositoryReports : IsSome(x.pdfPath)}}

\* the download request of slot k, for report id, made in this step
DownloadStep(k, id) ==
    /\ rreq[k].kind = "none"
    /\ rreq'[k].kind = "download"
    /\ rreq'[k].pc = "done"
    /\ rreq'[k].reportId = id

\* C16: every download of a successfully generated report, PR-scoped or
\* repository-scoped, succeeds (the round trip generate-then-download
\* yields the file)
C16_GeneratedReportDownloads ==
    [][\A k \in ReportSlots, id \in ReportIdInputs :
          DownloadStep(k, id) /\ id \in GeneratedReportIds
              => rreq'[k].status = 200]_vars

\* a repository-scope report request that names a repository or a template
\* the store does not hold
NamesUnknownId(r) ==
    \/ ~IsSome(getRepository(r.repositoryId))
    \/ r.templateId # 0 /\ ~IsSome(getReportTemplate(r.templateId))

\* C17: a request naming an unknown repository or template id makes no LLM
\* call, stores no row and is answered 404; stated for the repository-scope
\* report request, whose templateId the claim names
C17_UnknownIdAnswered404 ==
    \A k \in ReportSlots :
        rreq[k].kind = "generateRepo" /\ NamesUnknownId(rreq[k])
            => /\ rreq[k].llmCalls = 0
               /\ rreq[k].reportId = 0
               /\ rreq[k].pc = "done" => rreq[k].status = 404

----------------------------------------------------------------------------
(* Order of the stages of one report generation *)

\* the awaits of the handler in program order: getPullRequestDetails,
\* generateReportContent (prompt and LLM call), createReport, writeFileSync,
\* puppeteer.launch, page.pdf, updateReport, response
StageRank(pc) ==
    CASE pc = "details"  -> 1
      [] pc = "llm"      -> 2
      [] pc = "create"   -> 3
      [] pc = "html"     -> 4
      [] pc = "launch"   -> 5
      [] pc = "print"    -> 6
      [] pc = "backfill" -> 7
      [] OTHER           -> 8

\* request k moves on in this step
Moves(k) == rreq'[k].kind = "generate" /\ rreq'[k] # rreq[k]

\* the step is the first of the request (details are fetched, or built from
\* the stored row for a demo repository), or goes to the next stage, or ends
\* the request
InProgramOrder(k) ==
    \/ rreq[k].kind = "none" /\ StageRank(rreq'[k].pc) \in {1, 2, 8}
    \/ rreq[k].kind = "generate" /\ rreq[k].pc # "done"
          /\ StageRank(rreq'[k].pc) \in {StageRank(rreq[k].pc) + 1, 8}

\* what each stage finds done when it acts: the LLM is called once the
\* details are there, the row is stored with content the LLM returned, the
\* HTML file is written for a stored row, the PDF file never appears without
\* the row and the HTML file, the path is stored only of a written PDF file
StageFindsPrevious(k) ==
    /\ rreq'[k].llmCalls > rreq[k].llmCalls => rreq[k].pc = "llm"
    /\ rreq'[k].reportId # rreq[k].reportId
          => /\ rreq[k].llmCalls = 1 /\ IsSome(rreq[k].content)
             /\ \E x \in reports' : x.id = rreq'[k].reportId /\ x.content = Val(rreq[k].content)

\* the files and the stored path of report row x in this step
FilesFollowRow ==
    /\ \A f \in files' \ files : \E x \in reports : x.id = f.reportId
    /\ \A f \in files' \ files :
          f.ext = "pdf" => ReplaceExt(f) \in files'
    /\ \A x \in reports' :
          IsSome(x.pdfPath) /\ (\A y \in reports : y.id = x.id => ~IsSome(y.pdfPath))
              => /\ Val(x.pdfPath) \in files
                 /\ ReplaceExt(Val(x.pdfPath)) \in files
                 /\ \E y \in reports : y.id = x.id

\* C21: within one generation request the stages run in program order, each
\* after the previous one finished; a PDF file or a stored path never
\* appears unless the content was stored and the HTML file written before
C21_StagesInOrder ==
    [][/\ \A k \in ReportSlots : Moves(k) => InProgramOrder(k) /\ StageFindsPrevious(k)
       /\ FilesFollowRow]_vars

\* a generation for the connected repository that went through every stage
C21_Witness ==
    \E k \in ReportSlots :
        /\ Generated(k) /\ rreq[k].status = 200
        /\ rreq[k].ghCalls = 3 /\ rreq[k].llmCalls = 1
        /\ \E x \in reports : /\ x.id = rreq[k].reportId
                              /\ IsSome(x.pdfPath)
                              /\ {Val(x.pdfPath), ReplaceExt(Val(x.pdfPath))} \subseteq files

----------------------------------------------------------------------------
(* What later operations write to a report row *)

\* row y is row x with at most the path rewritten
SameButPath(x, y) ==
    /\ y.id = x.id
    /\ y.pullRequestId = x.pullRequestId
    /\ y.audienceType = x.audienceType
    /\ y.content = x.content

\* C22: a stored report row keeps its pull request, audience and content in
\* every step of every operation (back-fill of a generation, regeneration by
\* a download, preview, file loss); only its pdfPath is ever rewritten
C22_OnlyPathRewritten ==
    [][\A x \in reports : \E y \in reports' : SameButPath(x, y)]_vars

\* a row whose path was back-filled and then written again by a download that
\* regenerated the lost PDF
C22_Witness ==
    \E k \in ReportSlots :
        /\ rreq[k].kind = "download" /\ rreq[k].regen = "ok"
        /\ \E x \in reports : /\ x.id = rreq[k].reportId
                              /\ IsSome(x.pdfPath)
                              /\ x.pullRequestId \in {1, 2}

----------------------------------------------------------------------------
(* Bulk operations of the client: all three reports of a pull request, sync
   of all repositories *)

\* handleGenerateReport(pr.id, ["pm", "qa", "client"])
AllAudiences == <<"pm", "qa", "client">>

BulkSlots == DOMAIN AllAudiences

\* one turn of the loop of handleGenerateReport: apiRequest awaits the answer
\* and throws on a status that is not ok, so turn k starts after turn k - 1
\* was answered 200, for the same pull request and template; the two loops
\* write different tables and are taken one at a time
handleGenerateReport(k, prId, templateId) ==
    /\ \A j \in DOMAIN req : req[j].pc = "done"
    /\ IF k = 1 THEN TRUE
       ELSE /\ rreq[k - 1].pc = "done" /\ rreq[k - 1].status = 200
            /\ prId = rreq[1].prId /\ templateId = rreq[1].templateId
    /\ PostReport(k, prId, AllAudiences[k], templateId)

\* one turn of the loop of handleSyncAll over the repositories of the page,
\* each synced once, the next after the previous was answered 200
handleSyncAll(k, id) ==
    /\ \A j \in DOMAIN rreq : rreq[j].pc = "done"
    /\ IF k = 1 THEN TRUE
       ELSE /\ req[k - 1].pc = "done" /\ req[k - 1].status = 200
            /\ \A j \in 1..(k - 1) : req[j].repoId # id
    /\ RepoRowExists(id)
    /\ PostSync(k, id)

\* the table after a run of syncPullRequests was cut short with the rows of
\* its own inserts taken back
RolledBackSync(r) == {p \in pullRequests : p.id \notin r.created}

\* the table after syncPullRequests threw: the catch logs and rethrows, every
\* statement before the failing one was its own transaction
AfterFailedSync(r) == pullRequests

\* a statement of the loop of syncPullRequests is rejected by the database
\* (connection lost, timeout): the await throws inside the loop
SyncStatementFails(k) ==
    /\ req[k].pc \in {"syncLookup", "syncWrite"}
    /\ pullRequests' = AfterFailedSync(req[k])
    /\ Step(k, [SyncThrows(req[k]) EXCEPT !.i = req[k].i], FALSE)
    /\ UNCHANGED <<repositories, nextRepoId, nextPrId>>
    /\ UNCHANGED <<renderVars, templateVars, reportVars, promptVars>>

NextBulk ==
    \/ \E k \in BulkSlots, id \in {1, 2}, tid \in {0, 1} : handleGenerateReport(k, id, tid)
    \/ \E k \in BulkSlots : FetchDetails(k)
    \/ \E k \in BulkSlots : GenerateContent(k)
    \/ \E k \in BulkSlots : CreateReport(k)
    \/ \E k \in BulkSlots : WriteHtml(k)
    \/ \E k \in BulkSlots : LaunchBrowser(k)
    \/ \E k \in BulkSlots : PrintPdf(k)
    \/ \E k \in BulkSlots : BackfillPath(k)
    \/ \E k \in Slots, id \in {1, 2} : handleSyncAll(k, id)
    \/ \E k \in Slots : SyncFetch(k)
    \/ \E k \in Slots : SyncLookup(k)
    \/ \E k \in Slots : SyncWrite(k)
    \/ \E k \in Slots : SyncStatementFails(k)

\* the seeded store before the click, one slot per turn of either loop
InitBulk ==
    /\ RenderIdle
    /\ PromptIdle
    /\ reportTemplates = SeededTemplates
    /\ nextTemplateId = 2
    /\ templatesCache = None
    /\ tmplStatus = 0
    /\ repositories = SeededRepositories
    /\ pullRequests = SeededPullRequests
    /\ nextRepoId = 3
    /\ nextPrId = 3
    /\ req = [k \in Slots |-> NoRequest]
    /\ reports = {}
    /\ files = {}
    /\ nextReportId = 1
    /\ envGithubToken = TRUE
    /\ rreq = [k \in BulkSlots |-> NoReportRequest]
    /\ repositoryReports = {}

SpecBulk == InitBulk /\ [][NextBulk]_vars

\* turn k of handleGenerateReport was answered with an error
ReportTurnFailed(k) ==
    rreq[k].kind = "generate" /\ rreq[k].pc = "done" /\ rreq[k].status # 200

\* turn k of handleSyncAll was answered with an error
SyncTurnFailed(k) ==
    req[k].kind = "sync" /\ req[k].pc = "done" /\ req[k].status # 200

\* the report of turn j is stored with its files
ReportOfTurnStored(j) ==
    \E x \in reports :
        /\ x.id = rreq[j].reportId
        /\ x.audienceType = AllAudiences[j]
        /\ x.pullRequestId = rreq[j].prId
        /\ IsSome(x.pdfPath) /\ Val(x.pdfPath) \in files

\* the rows request j inserted are stored
InsertsStored(j) == \A id \in req[j].created : \E p \in pullRequests : p.id = id

\* when a turn of either client loop failed, what the turns before it stored
\* is still there
EarlierTurnsCommitted ==
    /\ \A k \in BulkSlots : ReportTurnFailed(k) => \A j \in 1..(k - 1) : ReportOfTurnStored(j)
    /\ \A k \in Slots : SyncTurnFailed(k) => \A j \in 1..k : InsertsStored(j)

\* the loop of one syncPullRequests run fails in this step
SyncLoopFails(k) ==
    /\ req[k].pc \in {"syncLookup", "syncWrite"}
    /\ req'[k].pc = "done"
    /\ req'[k].status = 500

\* C23: the bulk operations are loops of separate statements and requests:
\* when turn k of generate-all-audiences or of sync-all fails, the reports and
\* pull requests of the turns before stay stored, and when the upsert loop of
\* one sync fails, the failing step takes nothing back from pull_requests
C23_FailedTurnKeepsEarlierOnes ==
    /\ []EarlierTurnsCommitted
    /\ [][\A k \in Slots :
             SyncLoopFails(k)
                 => /\ pullRequests' = pullRequests
                    /\ \A id \in req[k].created : \E p \in pullRequests' : p.id = id]_vars

\* both loops failed in a later turn: the qa report was refused after the pm
\* report was stored, and the second sync failed on its second pull request
\* after the first sync returned and after its own first insert
C23_Witness ==
    /\ ReportTurnFailed(2) /\ ReportOfTurnStored(1)
    /\ SyncTurnFailed(2) /\ req[2].i = 2
    /\ req[1].synced /\ req[1].changed /\ req[2].created # {}
    /\ InsertsStored(1) /\ InsertsStored(2)

----------------------------------------------------------------------------
(* The LLM call of a report generation *)

\* C24: a generation request calls the LLM at most once; when the call
\* fails, answers no text or text that does not parse, the generator throws
\* after that one call, no row is stored and the request is answered 500; a
\* parsed value that lacks a required field ends the request with 500 as well
C24_OneLlmCallThen500 ==
    \A k \in ReportSlots :
        rreq[k].kind = "generate"
            => /\ rreq[k].llmCalls <= 1
               /\ rreq[k].failed = "llm"
                     => /\ rreq[k].pc = "done" /\ rreq[k].status = 500
                        /\ rreq[k].llmCalls = 1 /\ rreq[k].reportId = 0
               /\ Generated(k) /\ rreq[k].llmCalls = 1 /\ MissingRequired(rreq[k].content)
                     => rreq[k].status = 500

\* a request whose single LLM call failed, answered 500
C24_Witness ==
    \E k \in ReportSlots :
        /\ Generated(k) /\ rreq[k].failed = "llm"
        /\ rreq[k].llmCalls = 1 /\ rreq[k].status = 500

----------------------------------------------------------------------------
(* User prompts: the code-changes part of the PR prompt *)

\* file.patch of a changed file: undefined, the empty string, or text
PatchValues == {None, Some(<<>>), Some(<<"x">>), Some(<<"y">>), Some(<<"x", "y">>)}

RECURSIVE FileListsOfLen(_)
FileListsOfLen(n) ==
    IF n = 0 THEN {<<>>}
    ELSE {Append(l, [patch |-> p]) : l \in FileListsOfLen(n - 1), p \in PatchValues}

\* prDetails.changes.files
FileLists == UNION {FileListsOfLen(n) : n \in 0..MaxPromptFiles}

\* Boolean(patch): undefined and '' are falsy
Truthy(patch) == IsSome(patch) /\ Val(patch) # <<>>

\* Array.prototype.join
RECURSIVE JoinText(_, _)
JoinText(texts, separator) ==
    IF texts = <<>> THEN <<>>
    ELSE IF Len(texts) = 1 THEN texts[1]
    ELSE texts[1] \o separator \o JoinText(Tail(texts), separator)

\* 'No diff available'
NoDiffMarker == <<"N", "o", " ", "d", "i", "f", "f">>

\* files.map(file => file.patch).filter(Boolean): the texts of the kept patches
keptPatches(changedFiles) ==
    LET patches == [i \in DOMAIN changedFiles |-> changedFiles[i].patch]
        kept == SelectSeq(patches, Truthy)
    IN [i \in DOMAIN kept |-> Val(kept[i])]

\* the code-changes part without the `|| 'No diff available'`
codeChangesNoFallback(changedFiles) ==
    JoinText(keptPatches(changedFiles), <<"\n", "\n">>)

\* files.map(file => file.patch).filter(Boolean).join('\n\n') || 'No diff available'
codeChanges(changedFiles) ==
    LET joined == JoinText(keptPatches(changedFiles), <<"\n", "\n">>)
    IN IF joined = <<>> THEN NoDiffMarker ELSE joined

\* generateReportContent builds the user prompt from prDetails
BuildPrompt ==
    /\ promptIn.kind = "pr"
    /\ promptOut = <<>>
    /\ promptOut' = <<[codeChanges |-> codeChanges(promptIn.files)]>>
    /\ UNCHANGED promptIn
    /\ UNCHANGED <<renderVars, templateVars, repoVars, reportVars>>

----------------------------------------------------------------------------
(* User prompts: the repository prompt *)

\* pull_requests.status of row number i
StatusOf(i) == <<"open", "closed", "merged">>[(i % 3) + 1]

\* a pull_requests table: n rows of repository 1 whose updatedAt values are
\* spread by step and offset (distinct under modulus 13, with ties under 5),
\* and, when asked for, a newer row of repository 2
StoredRows(n, step, offset, modulus, other) ==
    {[number |-> i, repositoryId |-> 1, status |-> StatusOf(i),
      updatedAt |-> (i * step + offset) % modulus] : i \in 1..n}
    \cup (IF other THEN {[number |-> 99, repositoryId |-> 2, status |-> "open",
                          updatedAt |-> 20]}
          ELSE {})

StoredTables ==
    {StoredRows(n, step, offset, modulus, other) :
        n \in 0..MaxPromptPRs, step \in {1, 5}, offset \in 0..3,
        modulus \in {13, 5}, other \in BOOLEAN}

\* an ordering by updatedAt, oldest first
RECURSIVE OldestFirst(_)
OldestFirst(rows) ==
    IF rows = {} THEN <<>>
    ELSE LET first == CHOOSE r \in rows : \A q \in rows : r.updatedAt <= q.updatedAt
         IN <<first>> \o OldestFirst(rows \ {first})

\* orderBy(desc(pullRequests.updatedAt))
RECURSIVE RecentFirst(_)
RecentFirst(rows) ==
    IF rows = {} THEN <<>>
    ELSE LET first == CHOOSE r \in rows : \A q \in rows : q.updatedAt <= r.updatedAt
         IN <<first>> \o RecentFirst(rows \ {first})

\* DatabaseStorage.getPullRequestsByRepository on the given table
pullRequestsByRepository(table, repositoryId) ==
    RecentFirst({p \in table : p.repositoryId = repositoryId})

\* pullRequests.filter(pr => pr.status === status).length
CountStatus(prs, status) == Cardinality({i \in DOMAIN prs : prs[i].status = status})

\* repositoryData of the repository report route: the counts and the list
repositoryData(prs) ==
    [totalPRs |-> Len(prs),
     openPRs |-> CountStatus(prs, "open"),
     closedPRs |-> CountStatus(prs, "closed"),
     mergedPRs |-> CountStatus(prs, "merged"),
     activeFeatures |-> CountStatus(prs, "open"),
     completedFeatures |-> CountStatus(prs, "merged"),
     pullRequests |-> prs]

\* repositoryData.pullRequests.slice(0, 10)
slice10(prs) ==
    SubSeq(prs, 1, IF Len(prs) < PromptListLimit THEN Len(prs) ELSE PromptListLimit)

\* generateRepositoryReportContent builds the user prompt from repositoryData
BuildRepositoryPrompt ==
    /\ promptIn.kind = "repository"
    /\ promptOut = <<>>
    /\ LET data == repositoryData(pullRequestsByRepository(promptIn.table,
                                                           promptIn.repositoryId))
       IN promptOut' = <<[totalPRs |-> data.totalPRs, openPRs |-> data.openPRs,
                          closedPRs |-> data.closedPRs, mergedPRs |-> data.mergedPRs,
                          listed |-> slice10(data.pullRequests)]>>
    /\ UNCHANGED promptIn
    /\ UNCHANGED <<renderVars, templateVars, repoVars, reportVars>>

NextPrompt == BuildPrompt \/ BuildRepositoryPrompt

\* the PR details or the stored table a prompt is about to be built from
InitPrompt ==
    /\ RenderIdle /\ InitTemplateStore /\ InitRepoStore /\ ReportIdle
    /\ promptIn \in {[kind |-> "pr", files |-> l] : l \in FileLists}
                    \cup {[kind |-> "repository", table |-> t, repositoryId |-> 1] :
                             t \in StoredTables}
    /\ promptOut = <<>>

SpecPrompt == InitPrompt /\ [][NextPrompt]_vars

\* the texts between the separators of a joined text
RECURSIVE SplitText(_, _)
SplitText(text, acc) ==
    IF text = <<>> THEN <<acc>>
    ELSE IF Len(text) >= 2 /\ SubSeq(text, 1, 2) = <<"\n", "\n">>
         THEN <<acc>> \o SplitText(SubSeq(text, 3, Len(text)), <<>>)
         ELSE SplitText(Tail(text), Append(acc, Head(text)))

\* the non-empty patches of the files, in file order
RECURSIVE NonEmptyPatches(_)
NonEmptyPatches(changedFiles) ==
    IF changedFiles = <<>> THEN <<>>
    ELSE (IF changedFiles[1].patch \in {None, Some(<<>>)} THEN <<>>
          ELSE <<changedFiles[1].patch[1]>>) \o NonEmptyPatches(Tail(changedFiles))

\* C25: when no changed file carries a patch (no files, patches undefined or
\* empty) the code-changes part of the prompt is the marker 'No diff
\* available', never the empty string; otherwise the marker is absent and the
\* part consists of exactly the non-empty patches in file order
C25_NoDiffMarker ==
    promptIn.kind = "pr" /\ promptOut # <<>>
        => LET part == promptOut[1].codeChanges
               patches == NonEmptyPatches(promptIn.files)
           IN /\ part # <<>>
              /\ patches = <<>> => part = NoDiffMarker
              /\ patches # <<>> => /\ ~IsInfix(NoDiffMarker, part)
                                   /\ SplitText(part, <<>>) = patches

\* a prompt built for two changed files, one without a patch and one with an
\* empty patch
C25_Witness ==
    /\ promptIn.kind = "pr" /\ promptOut # <<>>
    /\ promptIn.files = <<[patch |-> None], [patch |-> Some(<<>>)]>>
    /\ promptOut[1].codeChanges = NoDiffMarker

\* the rows of the repository the prompt is built for
RowsOfRepository == {p \in promptIn.table : p.repositoryId = promptIn.repositoryId}

\* C26: the repository prompt lists at most ten pull requests, all of the
\* repository's when it has fewer; the listed ones are rows of that
\* repository and none of its unlisted rows was updated later than a listed
\* one; the counts are taken over all rows of the repository
C26_TenMostRecentListed ==
    promptIn.kind = "repository" /\ promptOut # <<>>
        => LET listed == promptOut[1].listed
               shown == {listed[i] : i \in DOMAIN listed}
           IN /\ Len(listed) <= 10
              /\ Len(listed) = IF Cardinality(RowsOfRepository) < 10
                               THEN Cardinality(RowsOfRepository) ELSE 10
              /\ Cardinality(shown) = Len(listed)
              /\ shown \subseteq RowsOfRepository
              /\ \A p \in shown, q \in RowsOfRepository \ shown : q.updatedAt <= p.updatedAt
              /\ promptOut[1].totalPRs = Cardinality(RowsOfRepository)
              /\ \A s \in {"open", "closed", "merged"} :
                    promptOut[1][s \o "PRs"] =
                        Cardinality({p \in RowsOfRepository : p.status = s})

\* a prompt built for a repository with twelve pull requests, next to a newer
\* pull request of another repository: ten are listed, twelve counted
C26_Witness ==
    /\ promptIn.kind = "repository" /\ promptOut # <<>>
    /\ Cardinality(RowsOfRepository) = 12
    /\ Cardinality(promptIn.table) = 13
    /\ Len(promptOut[1].listed) = 10
    /\ promptOut[1].totalPRs = 12

----------------------------------------------------------------------------
(* Reports for repositories connected in demo mode *)

NextDemoReports ==
    \/ \E k \in Slots, n \in FullNames, t \in Tokens : PostRepositoryDemo(k, n, t)
    \/ \E k \in Slots : DemoSeed(k)
    \/ \E id \in 1..(2 * MaxRepoRequests) : PostReport(1, id, "pm", 0)
    \/ FetchDetails(1)
    \/ GenerateContent(1)
    \/ CreateReport(1)
    \/ WriteHtml(1)
    \/ LaunchBrowser(1)
    \/ PrintPdf(1)
    \/ BackfillPath(1)

\* no repository connected yet; GITHUB_TOKEN is set or not
InitDemoReports ==
    /\ RenderIdle /\ InitTemplateStore /\ InitRepoStore /\ PromptIdle
    /\ reports = {}
    /\ files = {}
    /\ nextReportId = 1
    /\ envGithubToken \in BOOLEAN
    /\ rreq = [k \in ReportSlots |-> NoReportRequest]
    /\ repositoryReports = {}

SpecDemoReports == InitDemoReports /\ [][NextDemoReports]_vars

\* the pull request of request r belongs to a repository POST /api/repositories
\* created in demo mode: its row holds the placeholder token
OfDemoRepository(r) ==
    \E p \in pullRequests, x \in repositories :
        /\ p.id = r.prId
        /\ x.id = p.repositoryId
        /\ x.githubToken = "demo-token-not-real"

\* C27: a report generation for a pull request of a repository created in
\* demo mode makes no call to the source-control host and does not depend on
\* GITHUB_TOKEN
C27_DemoNeverCallsHost ==
    \A k \in ReportSlots :
        rreq[k].kind = "generate" /\ OfDemoRepository(rreq[k])
            => /\ rreq[k].ghCalls = 0
               /\ rreq[k].pc # "details"
               /\ rreq[k].failed # "config"

----------------------------------------------------------------------------
(* The counts of a repository report over synced pull requests *)

\* the rows in some order (the counts do not depend on it)
RECURSIVE AsList(_)
AsList(rows) ==
    IF rows = {} THEN <<>>
    ELSE LET first == CHOOSE r \in rows : TRUE
         IN <<first>> \o AsList(rows \ {first})

\* C29: for every repository, the merged count and the completed-features
\* count of repositoryData equal the number of its stored pull requests that
\* have a merged timestamp, and open + closed + merged is the total
C29_MergedCountMatchesTimestamps ==
    \A x \in repositories :
        LET rows == {p \in pullRequests : p.repositoryId = x.id}
            data == repositoryData(AsList(rows))
            merged == Cardinality({p \in rows : p.mergedAt})
        IN /\ data.mergedPRs = merged
           /\ data.completedFeatures = merged
           /\ data.openPRs + data.closedPRs + data.mergedPRs = data.totalPRs

----------------------------------------------------------------------------
(* The headless browser of generatePDF *)

\* a browser is open only between puppeteer.launch and the end of the
\* try/finally around the page calls
NoBrowserLeftOpen ==
    \A k \in ReportSlots : rreq[k].browser = "open" => rreq[k].pc = "print"

\* request k launches its browser in this step
Launches(k) == rreq[k].browser # "open" /\ rreq'[k].browser = "open"

\* C30: a launched browser is closed on every path out of generatePDF (PDF
\* written, page load failed, PDF write failed), so no finished request has
\* a browser open; and the browser is launched only with the HTML file of
\* the report already written
C30_BrowserClosedHtmlFirst ==
    /\ []NoBrowserLeftOpen
    /\ [][\A k \in ReportSlots :
             Launches(k) => HtmlPath(rreq[k].reportId, pdfTag(rreq[k])) \in files]_vars

\* a render that failed after the launch, its browser closed, and one that
\* wrote the PDF, its browser closed
C30_Witness ==
    /\ rreq[1].failed = "render" /\ rreq[1].browser = "closed" /\ rreq[1].pc = "done"
    /\ rreq[2].status = 200 /\ rreq[2].browser = "closed" /\ rreq[2].kind = "generate"

=============================================================================
